---- MODULE Spec2Model ----
(***************************************************************************)
(* Magic Slate analytical core: title valuation (scorecards), performance  *)
(* classification, windowing simulation and cash-flow timelines.           *)
(*                                                                         *)
(* Number representation.  The program computes in floating point; here    *)
(* every quantity is an integer in a fixed unit:                           *)
(*   money   whole millions of dollars (the unit of the budget columns),   *)
(*   hours   whole millions of hours viewed,                               *)
(*   scores  0..100,  days and weeks as integers.                          *)
(* A product of fractional factors is carried with the factors scaled to   *)
(* integers and divided out at the end (\div truncates).  Ratios that are  *)
(* compared with thresholds (ROI, cost per hour) are kept exact as a       *)
(* numerator/denominator pair and compared by cross-multiplication.        *)
(***************************************************************************)
EXTENDS Integers, Sequences, FiniteSets, TLC

VARIABLES
    titles,       \* df_titles: title_id -> row of title metadata
    engagement,   \* df_engagement: title_id -> rows (week_number, proxy_hours_viewed)
    quality,      \* df_quality: title_id -> row of quality scores
    call,         \* the operation last invoked, with its arguments
    ret,          \* what that operation returned (or the error it raised)
    asmp_DISCOUNT_RATE, \* asmp.DISCOUNT_RATE, the module attribute, in percent per year
    sessions      \* Windowing Lab page runs in progress: session -> script position and locals

vars == <<titles, engagement, quality, call, ret, asmp_DISCOUNT_RATE, sessions>>

(***************************************************************************)
(* Generic helpers                                                         *)
(***************************************************************************)
Max(a, b) == IF a >= b THEN a ELSE b
Min(a, b) == IF a <= b THEN a ELSE b

RECURSIVE SumSeq(_)
SumSeq(s) == IF s = <<>> THEN 0 ELSE Head(s) + SumSeq(Tail(s))

MinOf(D) == CHOOSE y \in D : \A z \in D : y <= z

RECURSIVE SumFew(_, _)
SumFew(f, D) ==
    IF D = {} THEN 0
    ELSE LET x == MinOf(D) IN f[x] + SumFew(f, D \ {x})

RECURSIVE SumFn(_, _)
\* Sum of f over the finite set of integers D, sixteen consecutive integers at a time
SumFn(f, D) ==
    IF D = {} THEN 0
    ELSE LET lo == MinOf(D)
             chunk == {x \in D : x < lo + 16}
         IN  SumFew(f, chunk) + SumFn(f, D \ chunk)

\* An exact ratio n/d (d >= 0); d = 0 with n = 1 is float("inf")
Ratio(n, d) == [n |-> n, d |-> d]
Inf == Ratio(1, 0)
Zero == Ratio(0, 1)
\* r <= k/10, r >= k/10, r > k/10 by cross-multiplication
RatLE10(r, k) == r.n * 10 <= k * r.d
RatGE10(r, k) == r.n * 10 >= k * r.d
RatGT10(r, k) == r.n * 10 > k * r.d

\* dict.get(key, default) and `key in dict`
Get(d, key, default) == IF key \in DOMAIN d THEN d[key] ELSE default
Has(d, key) == key \in DOMAIN d

\* pd.NaT and a date given as a day number
NaT == <<>>
Date(d) == <<d>>
notna(x) == x # NaT
Days(x) == x[1]

(***************************************************************************)
(* assumptions.py: economic parameters (scaled to integers)                *)
(***************************************************************************)
DISNEY_PLUS_ARPU == 799                 \* cents per month
HULU_ARPU == 1299                       \* cents per month
HULU_AD_ARPU_PER_HOUR == 5              \* cents per hour
ACQUISITION_CONVERSION_BASE == 50       \* new subscribers per 1M hours
ACQUISITION_QUALITY_MULTIPLIER == 15    \* tenths
RETENTION_IMPACT_BASE == 100            \* subscriber-months per 1M hours
RETENTION_QUALITY_MULTIPLIER == 13      \* tenths
PVOD_CANNIBALIZATION_FACTOR == 30       \* percent
LICENSE_CANNIBALIZATION_FACTOR == 25    \* percent
PVOD_REVENUE_PCT_OF_THEATRICAL == 15    \* percent
DISCOUNT_RATE == 10              \* percent per year

\* THEATRICAL_MULTIPLIER_BY_TIER.get(tier, 3.0), in tenths
THEATRICAL_MULTIPLIER_BY_TIER(tier) ==
    CASE tier = "Low" -> 25
      [] tier = "Medium" -> 30
      [] tier = "High" -> 35
      [] OTHER -> 30

\* get_platform_arpu, cents per month
get_platform_arpu(platform) ==
    IF platform = "Disney+" THEN DISNEY_PLUS_ARPU
    ELSE IF platform = "Hulu" THEN HULU_ARPU
    ELSE DISNEY_PLUS_ARPU

\* estimate_new_subscribers_from_hours: subscribers (hours in millions)
estimate_new_subscribers_from_hours(hours_viewed, title_metadata, quality_scores) ==
    IF hours_viewed <= 0 THEN 0
    ELSE
      LET base_subs == hours_viewed * ACQUISITION_CONVERSION_BASE
          qf1 == IF Has(quality_scores, "buzz_score") /\ quality_scores.buzz_score > 70
                 THEN ACQUISITION_QUALITY_MULTIPLIER ELSE 10
          qf2 == IF Has(quality_scores, "audience_score")
                      /\ quality_scores.audience_score > 80
                 THEN 12 ELSE 10
          brand_multiplier ==
              CASE title_metadata.brand = "Marvel" -> 15
                [] title_metadata.brand = "Star Wars" -> 14
                [] title_metadata.brand = "Pixar" -> 13
                [] OTHER -> 10
          content_type_multiplier ==
              IF title_metadata.content_type = "Film" THEN 12 ELSE 10
      IN  (((base_subs * qf1 * qf2) \div 100)
              * brand_multiplier * content_type_multiplier) \div 100

\* estimate_retained_subscriber_months_from_hours: subscriber-months
estimate_retained_subscriber_months_from_hours(hours_viewed, title_metadata, quality_scores) ==
    IF hours_viewed <= 0 THEN 0
    ELSE
      LET base_retention_months == hours_viewed * RETENTION_IMPACT_BASE
          \* avg_quality > 75  <=>  critic + audience > 150
          quality_factor ==
              IF Get(quality_scores, "critic_score", 70)
                     + Get(quality_scores, "audience_score", 70) > 150
              THEN RETENTION_QUALITY_MULTIPLIER ELSE 10
          content_multiplier ==
              IF title_metadata.content_type = "Series" THEN 13 ELSE 10
      IN  (base_retention_months * quality_factor * content_multiplier) \div 100

\* estimate_ad_revenue_hulu: hours * 0.30 * 0.05 dollars, in $M for hours in millions
estimate_ad_revenue_hulu(hours_viewed) ==
    (hours_viewed * 30 * HULU_AD_ARPU_PER_HOUR) \div 10000

\* The outcomes of np.random.uniform(0.8, 1.2), in percent
VarianceDraws == {80, 100, 120}

\* estimate_theatrical_revenue; `variance` is the value np.random.uniform drew
estimate_theatrical_revenue(title_metadata, quality_scores, variance) ==
    LET budget == title_metadata.estimated_production_budget
        budget_tier == title_metadata.production_budget_tier
    IN
    IF budget <= 0 \/ title_metadata.content_type # "Film" THEN 0
    ELSE
      LET base_multiplier == THEATRICAL_MULTIPLIER_BY_TIER(budget_tier)
          \* quality_factor = 0.5 + (avg_score/100)*1.5 = (200 + 3*(critic+audience))/400
          quality_factor400 ==
              200 + 3 * (Get(quality_scores, "critic_score", 70)
                           + Get(quality_scores, "audience_score", 70))
          brand_multiplier ==
              CASE title_metadata.brand = "Marvel" -> 18
                [] title_metadata.brand = "Star Wars" -> 16
                [] title_metadata.brand = "Pixar" -> 14
                [] title_metadata.brand = "Disney Animation" -> 12
                [] OTHER -> 10
          \* thousandths of $M before the variance draw
          theatrical_revenue ==
              (budget * base_multiplier * quality_factor400 * brand_multiplier) \div 40
      IN  Max(0, (theatrical_revenue * variance) \div 100000)

\* estimate_pvod_revenue
estimate_pvod_revenue(theatrical_revenue, quality_scores, streaming_window_days) ==
    IF theatrical_revenue <= 0 THEN 0
    ELSE
      LET \* window_factor in twentieths: 1 - 0.3, 1 - 0.15, 1
          window_factor ==
              IF streaming_window_days < 45
                  THEN (100 - PVOD_CANNIBALIZATION_FACTOR) \div 5
              ELSE IF streaming_window_days < 75
                  THEN (200 - PVOD_CANNIBALIZATION_FACTOR) \div 10
              ELSE 20
          \* quality_factor = 0.7 + (avg_score/100)*0.6 = (700 + 3*(critic+audience))/1000
          quality_factor1000 ==
              700 + 3 * (Get(quality_scores, "critic_score", 70)
                           + Get(quality_scores, "audience_score", 70))
          \* base_pvod = theatrical * 15/100; 3/20 * wf/20 * qf/1000
      IN  Max(0, (theatrical_revenue * (PVOD_REVENUE_PCT_OF_THEATRICAL \div 5)
                    * window_factor * quality_factor1000) \div 400000)

\* apply_license_cannibalization
apply_license_cannibalization(base_streaming_value, has_third_party_license) ==
    IF has_third_party_license
    THEN (base_streaming_value * (100 - LICENSE_CANNIBALIZATION_FACTOR)) \div 100
    ELSE base_streaming_value

(***************************************************************************)
(* assumptions.py: classification thresholds ($M; ROI and $/hour in tenths)*)
(***************************************************************************)
TENTPOLE_min_budget == 80
TENTPOLE_min_value == 200
WORKHORSE_min_roi == 5
WORKHORSE_max_roi == 20
WORKHORSE_min_budget == 10
NICHE_GEM_max_budget == 20
NICHE_GEM_min_roi == 15
NICHE_GEM_max_cost_per_hour == 50
UNDERPERFORMER_max_roi == 0
ACCEPTABLE_min_roi == 3

(***************************************************************************)
(* metrics.py                                                              *)
(***************************************************************************)
\* A title's engagement rows are a function week_number -> proxy_hours_viewed
\* (weeks are unique per title), so sort_values("week_number") is the order
\* of the domain.
Weeks(df) == DOMAIN df

\* idxmax on the sorted frame: the first (smallest) week holding the maximum
idxmax(df) ==
    CHOOSE w \in Weeks(df) :
        /\ \A v \in Weeks(df) : df[v] <= df[w]
        /\ \A v \in Weeks(df) : df[v] = df[w] => w <= v

\* np.log(hours + 1) of the hour levels in use, in hundredths; hours are in
\* millions, so the argument is hours * 10^6 + 1
LogScale == 100
log_hours(hours) ==
    CASE hours = 0 -> 0
      [] hours = 1 -> 1382
      [] hours = 3 -> 1491
      [] hours = 1500 -> 2113
      [] hours = 3000 -> 2182

RECURSIVE gcd(_, _)
gcd(a, b) == IF b = 0 THEN a ELSE gcd(b, a % b)

\* n / d divided through by g
ReducedBy(n, d, g) == Ratio(n \div g, d \div g)

\* a / b for ratios with positive denominators and b > 0, in lowest terms
RatDiv(a, b) ==
    ReducedBy(a.n * b.d, a.d * b.n,
              gcd(IF a.n < 0 THEN 0 - a.n * b.d ELSE a.n * b.d, a.d * b.n))

\* The sums of a regression of y[x] on x over the points x in X (a few points)
regression_sums(X, y) ==
    [n |-> Cardinality(X),
     x |-> SumFew([x \in X |-> x], X),
     y |-> SumFew(y, X),
     xx |-> SumFew([x \in X |-> x * x], X),
     xy |-> SumFew([x \in X |-> x * y[x]], X)]

\* n * sum((x - mean(X)) * (y - mean(y)))
CrossDeviation(s) == s.n * s.xy - s.x * s.y

\* n * sum((x - mean(X))^2)
SquareDeviation(s) == s.n * s.xx - s.x * s.x

\* np.cov(X, y)[0, 1]: the sample covariance, sum of products over n - 1
np_cov(s) == Ratio(CrossDeviation(s), s.n * (s.n - 1))

\* np.var(X): the population variance, sum of squares over n
np_var(s) == Ratio(SquareDeviation(s), s.n * s.n)

\* slope = np.cov(X, y)[0, 1] / np.var(X) if np.var(X) > 0 else 0, in
\* hundredths of a log unit per week
regression_slope(s) ==
    IF SquareDeviation(s) > 0 THEN RatDiv(np_cov(s), np_var(s)) ELSE Zero

\* max(0, -slope)
decay_of_slope(slope) == IF slope.n < 0 THEN Ratio(0 - slope.n, slope.d) ELSE Zero

\* if len(X) > 1 and np.std(X) > 0: the fitted decay, else the initial 0.0
decay_of_sums(s) ==
    IF s.n > 1 /\ SquareDeviation(s) > 0 THEN decay_of_slope(regression_slope(s)) ELSE Zero

\* The points of the fit: X is weeks_since_peak, y is log_hours
weeks_since(weeks, peak_week) == {w - peak_week : w \in weeks}
log_hours_since(df, weeks, peak_week) ==
    [x \in weeks_since(weeks, peak_week) |-> log_hours(df[x + peak_week])]

\* The decay-rate estimation of compute_engagement_curve; post_peak holds the
\* weeks after the peak
fit_decay_rate(df, peak_week, post_peak) ==
    IF Cardinality(post_peak) >= 3
    THEN decay_of_sums(regression_sums(weeks_since(post_peak, peak_week),
                                       log_hours_since(df, post_peak, peak_week)))
    ELSE Zero

\* df[df["week_number"] > peak_week]
weeks_after(df, peak_week) == {w \in Weeks(df) : w > peak_week}

\* Hours from week 4 on
long_tail_hours_from_week_four(df) == SumFn(df, {w \in Weeks(df) : w >= 4})

\* df[df["week_number"] > 4]["proxy_hours_viewed"].sum(): hours after week 4
long_tail_hours(df) == SumFn(df, {w \in Weeks(df) : w > 4})

\* An engagement curve whose empty-frame default reports peak week 1
engagement_curve_peak_week_one(df_engagement) ==
    [peak_hours |-> 0, peak_week |-> 1, total_hours |-> 0, decay_rate |-> Zero,
     long_tail_share |-> Zero, weeks_above_threshold |-> 0]

\* compute_engagement_curve; decay_rate is in hundredths of a log unit per week
compute_engagement_curve(df_engagement) ==
    IF Weeks(df_engagement) = {}
    THEN [peak_hours |-> 0, peak_week |-> 0, total_hours |-> 0, decay_rate |-> Zero,
          long_tail_share |-> Zero, weeks_above_threshold |-> 0]
    ELSE
      LET df == df_engagement
          peak_idx == idxmax(df)
          peak_hours == df[peak_idx]
          peak_week == peak_idx
          total_hours == SumFn(df, Weeks(df))
          decay_rate == fit_decay_rate(df, peak_week, weeks_after(df, peak_week))
          long_tail_share ==
              IF total_hours > 0 THEN Ratio(long_tail_hours(df), total_hours) ELSE Zero
          \* hours > peak * 0.1
          weeks_above_threshold ==
              Cardinality({w \in Weeks(df) : df[w] * 10 > peak_hours})
      IN  [peak_hours |-> peak_hours, peak_week |-> peak_week,
           total_hours |-> total_hours, decay_rate |-> decay_rate,
           long_tail_share |-> long_tail_share,
           weeks_above_threshold |-> weeks_above_threshold]

\* hours_to_value_metrics
hours_to_value_metrics(total_hours, title_metadata, quality_scores, platform) ==
    LET new_subs == estimate_new_subscribers_from_hours(
                        total_hours, title_metadata, quality_scores)
        arpu == get_platform_arpu(platform)
        avg_lifetime_months == 18
        \* subscribers * cents * months -> $M
        acquisition_value ==
            (((new_subs * arpu) \div 1000) * avg_lifetime_months) \div 100000
        retained_sub_months == estimate_retained_subscriber_months_from_hours(
                                   total_hours, title_metadata, quality_scores)
        retention_value == (retained_sub_months * arpu) \div 100000000
        ad_value == IF platform = "Hulu" THEN estimate_ad_revenue_hulu(total_hours) ELSE 0
        total_streaming_value == acquisition_value + retention_value + ad_value
    IN  [acquisition_value |-> acquisition_value,
         retention_value |-> retention_value,
         ad_value |-> ad_value,
         total_streaming_value |-> total_streaming_value]

\* The rules with Underperformer tested ahead of Tentpole
classify_underperformer_first(total_value, total_cost, roi, budget_tier, cost_per_hour) ==
    IF RatLE10(roi, UNDERPERFORMER_max_roi)
        THEN "Underperformer"
    ELSE IF total_cost >= TENTPOLE_min_budget /\ total_value >= TENTPOLE_min_value
        THEN "Tentpole"
    ELSE IF /\ total_cost <= NICHE_GEM_max_budget
            /\ RatGE10(roi, NICHE_GEM_min_roi)
            /\ RatLE10(cost_per_hour, NICHE_GEM_max_cost_per_hour)
        THEN "Niche Gem"
    ELSE IF /\ RatGE10(roi, WORKHORSE_min_roi)
            /\ RatLE10(roi, WORKHORSE_max_roi)
            /\ total_cost >= WORKHORSE_min_budget
        THEN "Workhorse"
    ELSE IF RatGT10(roi, ACCEPTABLE_min_roi)
        THEN "Acceptable"
    ELSE "Marginal"

\* classify_title_performance (budget_tier is accepted and never read)
classify_title_performance(total_value, total_cost, roi, budget_tier, cost_per_hour) ==
    IF total_cost >= TENTPOLE_min_budget /\ total_value >= TENTPOLE_min_value
        THEN "Tentpole"
    ELSE IF RatLE10(roi, UNDERPERFORMER_max_roi)
        THEN "Underperformer"
    ELSE IF /\ total_cost <= NICHE_GEM_max_budget
            /\ RatGE10(roi, NICHE_GEM_min_roi)
            /\ RatLE10(cost_per_hour, NICHE_GEM_max_cost_per_hour)
        THEN "Niche Gem"
    ELSE IF /\ RatGE10(roi, WORKHORSE_min_roi)
            /\ RatLE10(roi, WORKHORSE_max_roi)
            /\ total_cost >= WORKHORSE_min_budget
        THEN "Workhorse"
    ELSE IF RatGT10(roi, ACCEPTABLE_min_roi)
        THEN "Acceptable"
    ELSE "Marginal"

(***************************************************************************)
(* Table lookups                                                           *)
(***************************************************************************)
\* df[df["title_id"] == title_id].iloc[0] raises IndexError on an empty
\* selection; that error outcome is reported as NotFound.
HasRow(df, title_id) == title_id \in DOMAIN df
NotFound == [status |-> "NotFound"]
NoRows == [w \in {} |-> 0]
\* df_engagement[df_engagement["title_id"] == title_id]: possibly empty
EngagementOf(df_engagement, title_id) ==
    IF title_id \in DOMAIN df_engagement THEN df_engagement[title_id] ELSE NoRows

\* compute_title_scorecard: ROI, taken as 0 when the title cost nothing
unguarded_roi(total_value, total_cost) == Ratio(total_value - total_cost, total_cost)

scorecard_roi(total_value, total_cost) ==
    IF total_cost > 0 THEN Ratio(total_value - total_cost, total_cost) ELSE Zero

\* compute_title_scorecard: cost per hour, float("inf") when nothing was viewed
scorecard_cost_per_hour(total_cost, total_hours) ==
    IF total_hours > 0 THEN Ratio(total_cost, total_hours) ELSE Inf

(***************************************************************************)
(* title_scorecard.py                                                      *)
(***************************************************************************)
\* The body of compute_title_scorecard after both rows were found;
\* `variance` is the draw estimate_theatrical_revenue makes when it is called.
scorecard_of(title_row, title_engagement, quality_row, variance) ==
    LET platform == title_row.platform_primary
        content_type == title_row.content_type
        engagement_metrics == compute_engagement_curve(title_engagement)
        total_hours == engagement_metrics.total_hours
        production_budget == title_row.estimated_production_budget
        marketing_spend == title_row.estimated_marketing_spend
        total_cost == production_budget + marketing_spend
        value_metrics == hours_to_value_metrics(total_hours, title_row, quality_row, platform)
        streaming_value == value_metrics.total_streaming_value
        ad_value == value_metrics.ad_value
        is_theatrical == content_type = "Film" /\ notna(title_row.release_theatrical_date)
        theatrical_value ==
            IF is_theatrical
            THEN estimate_theatrical_revenue(title_row, quality_row, variance)
            ELSE 0
        streaming_date ==
            IF notna(title_row.release_disney_plus_date)
            THEN title_row.release_disney_plus_date
            ELSE title_row.release_hulu_date
        window_days ==
            IF notna(streaming_date)
            THEN Days(streaming_date) - Days(title_row.release_theatrical_date)
            ELSE 90
        pvod_value ==
            IF is_theatrical /\ notna(title_row.release_pvod_date) /\ theatrical_value > 0
            THEN estimate_pvod_revenue(theatrical_value, quality_row, window_days)
            ELSE 0
        total_value == streaming_value + ad_value + theatrical_value + pvod_value
        roi == scorecard_roi(total_value, total_cost)
        cost_per_hour == scorecard_cost_per_hour(total_cost, total_hours)
        classification == classify_title_performance(
            total_value, total_cost, roi, title_row.production_budget_tier, cost_per_hour)
    IN  [status |-> "ok",
         title_id |-> title_row.title_id,
         platform_primary |-> platform,
         content_type |-> content_type,
         total_hours_viewed |-> total_hours,
         peak_hours |-> engagement_metrics.peak_hours,
         peak_week |-> engagement_metrics.peak_week,
         long_tail_share |-> engagement_metrics.long_tail_share,
         production_budget |-> production_budget,
         marketing_spend |-> marketing_spend,
         total_cost |-> total_cost,
         acquisition_value |-> value_metrics.acquisition_value,
         retention_value |-> value_metrics.retention_value,
         streaming_value |-> streaming_value,
         ad_value |-> ad_value,
         theatrical_value |-> theatrical_value,
         pvod_value |-> pvod_value,
         total_value |-> total_value,
         roi |-> roi,
         cost_per_hour_viewed |-> cost_per_hour,
         classification |-> classification]

\* compute_title_scorecard
compute_title_scorecard(title_id, df_titles, df_engagement, df_quality, variance) ==
    IF ~HasRow(df_titles, title_id) \/ ~HasRow(df_quality, title_id)
    THEN NotFound
    ELSE scorecard_of(df_titles[title_id], EngagementOf(df_engagement, title_id),
                      df_quality[title_id], variance)

(***************************************************************************)
(* Input domains                                                           *)
(***************************************************************************)
MaxTitles == 2          \* title identifiers are 1..MaxTitles
MaxWeek == 1            \* engagement weeks are 0..MaxWeek in the valuation runs
TitleIds == 1..MaxTitles

\* Budget tier with production budget and marketing spend ($M)
BudgetRows == { <<"Low", 0, 0>>, <<"Low", 15, 5>>, <<"High", 90, 30>> }
QualityRows ==
    { [critic_score |-> 50, audience_score |-> 50, imdb_rating |-> 6, buzz_score |-> 60],
      [critic_score |-> 90, audience_score |-> 90, imdb_rating |-> 8, buzz_score |-> 80] }
HourLevels == {0, 1500}

TitleRow(id, brand, genre, platform, ctype, b, th, pv, dp, hu) ==
    [title_id |-> id, brand |-> brand, genre |-> genre,
     platform_primary |-> platform, content_type |-> ctype,
     production_budget_tier |-> b[1],
     estimated_production_budget |-> b[2],
     estimated_marketing_spend |-> b[3],
     release_theatrical_date |-> th, release_pvod_date |-> pv,
     release_disney_plus_date |-> dp, release_hulu_date |-> hu]

\* The title rows the valuation runs draw from
TitleRows(id) ==
    { TitleRow(id, brand, "Action", platform, ctype, b, th, pv, dp, hu) :
        brand \in {"Marvel", "Hulu Originals"},
        platform \in {"Disney+", "Hulu"},
        ctype \in {"Film", "Series"},
        b \in BudgetRows,
        th \in {NaT, Date(0)},
        pv \in {NaT, Date(20)},
        dp \in {NaT, Date(30), Date(100)},
        hu \in {NaT, Date(60)} }

\* Every engagement series over the weeks 0..maxWeek
SeriesOver(maxWeek) ==
    UNION { [W -> HourLevels] : W \in SUBSET (0..maxWeek) }

NoCall == [op |-> "none"]
NoResult == [status |-> "none"]

(***************************************************************************)
(* Valuation runs: one catalogued title, valued on demand                  *)
(***************************************************************************)
InitScore ==
    /\ \E row \in TitleRows(1) : titles = (1 :> row)
    /\ \E q \in QualityRows : quality = (1 :> q)
    /\ \E srs \in SeriesOver(MaxWeek) : engagement = (1 :> srs)
    /\ call = NoCall
    /\ ret = NoResult
    /\ asmp_DISCOUNT_RATE = DISCOUNT_RATE
    /\ sessions = <<>>

\* valueTitle: compute_title_scorecard(title_id, ...)
ValueTitle ==
    /\ call = NoCall
    /\ \E title_id \in TitleIds, variance \in VarianceDraws :
        /\ call' = [op |-> "compute_title_scorecard", title_id |-> title_id]
        /\ ret' = compute_title_scorecard(title_id, titles, engagement, quality, variance)
        /\ UNCHANGED <<titles, engagement, quality, asmp_DISCOUNT_RATE, sessions>>

NextScore == ValueTitle

SpecScore == InitScore /\ [][NextScore]_vars

Scored == call.op = "compute_title_scorecard" /\ ret.status = "ok"

\* C1: every scorecard's total value is acquisition + retention + ad +
\* theatrical + PVOD value, each counted once, and ROI is
\* (total value - total cost)/total cost whenever the cost is positive.
C1_TotalValueCountsEachComponentOnce ==
    Scored =>
        /\ ret.total_value = ret.acquisition_value + ret.retention_value
                               + ret.ad_value + ret.theatrical_value + ret.pvod_value
        /\ ret.total_cost > 0 =>
               ret.roi = Ratio(ret.total_value - ret.total_cost, ret.total_cost)

EmptySeries == Weeks(EngagementOf(engagement, call.title_id)) = {}

\* C10 as stated: with an empty engagement series the scorecard is returned
\* without error and has total hours 0 and total value 0, for every title.
C10_EmptySeriesZeroValue ==
    (call.op = "compute_title_scorecard" /\ ret.status # "NotFound" /\ EmptySeries) =>
        /\ ret.status = "ok"
        /\ ret.total_hours_viewed = 0
        /\ ret.total_value = 0

\* C10 amended: with an empty engagement series the statistics are all zero,
\* the scorecard is returned without error with total hours 0 and streaming
\* (acquisition, retention, ad) value 0, and its total value is the theatrical
\* plus PVOD value, which is 0 unless the title is a film with a theatrical
\* date and a positive production budget.
C10_EmptySeriesZeroStreamingValue ==
    (call.op = "compute_title_scorecard" /\ ret.status # "NotFound" /\ EmptySeries) =>
        /\ ret.status = "ok"
        /\ ret.total_hours_viewed = 0
        /\ ret.peak_hours = 0 /\ ret.peak_week = 0 /\ ret.long_tail_share = Zero
        /\ ret.acquisition_value = 0 /\ ret.retention_value = 0
        /\ ret.streaming_value = 0 /\ ret.ad_value = 0
        /\ ret.total_value = ret.theatrical_value + ret.pvod_value
        /\ LET row == titles[call.title_id]
           IN  (\/ row.content_type # "Film"
                \/ row.release_theatrical_date = NaT
                \/ row.estimated_production_budget <= 0) => ret.total_value = 0

\* An empty series valued for a film with a theatrical date: the theatrical
\* estimate is positive although no hour was viewed.
C10_Witness ==
    /\ Scored /\ EmptySeries
    /\ ret.content_type = "Film" /\ ret.theatrical_value > 0
    /\ ret.total_hours_viewed = 0

(***************************************************************************)
(* Classification runs: classify_title_performance on drawn arguments      *)
(***************************************************************************)
CostLevels == {0, 10, 15, 20, 80, 90, 250}
ValueLevels == {0, 30, 200, 250}
RoiLevels == { Ratio(0 - 1, 2), Zero, Ratio(3, 10), Ratio(1, 2), Ratio(3, 2),
               Ratio(2, 1), Ratio(5, 2) }
CostPerHourLevels == { Inf, Ratio(1, 1), Ratio(5, 1), Ratio(6, 1) }

InitClassify ==
    /\ titles = <<>> /\ engagement = <<>> /\ quality = <<>>
    /\ \E c \in CostLevels, v \in ValueLevels, r \in RoiLevels, h \in CostPerHourLevels :
           call = [op |-> "arguments", total_cost |-> c, total_value |-> v,
                   roi |-> r, cost_per_hour |-> h]
    /\ ret = NoResult
    /\ asmp_DISCOUNT_RATE = DISCOUNT_RATE
    /\ sessions = <<>>

Classify ==
    /\ call.op = "arguments"
    /\ call' = [call EXCEPT !.op = "classify_title_performance"]
    /\ ret' = [status |-> "ok",
               label |-> classify_title_performance(
                   call.total_value, call.total_cost, call.roi, "Medium",
                   call.cost_per_hour)]
    /\ UNCHANGED <<titles, engagement, quality, asmp_DISCOUNT_RATE, sessions>>

NextClassify == Classify

SpecClassify == InitClassify /\ [][NextClassify]_vars

Classified == call.op = "classify_title_performance"

Labels ==
    {"Tentpole", "Underperformer", "Niche Gem", "Workhorse", "Acceptable", "Marginal"}

\* C2: classification returns exactly one of the six labels, the label of the
\* first matching rule in the order Tentpole, Underperformer, Niche Gem,
\* Workhorse, Acceptable, Marginal; a title with cost >= 80M and value >= 200M
\* is Tentpole even when its ROI <= 0, and cost 90M with value 250M is Tentpole.
C2_FirstMatchingRule ==
    Classified =>
        LET c == call.total_cost
            v == call.total_value
            r == call.roi
            h == call.cost_per_hour
            tentpole == c >= 80 /\ v >= 200
            under == r.n <= 0
            niche == c <= 20 /\ 2 * r.n >= 3 * r.d /\ h.d > 0 /\ h.n <= 5 * h.d
            workhorse == 2 * r.n >= r.d /\ r.n <= 2 * r.d /\ c >= 10
            acceptable == 10 * r.n > 3 * r.d
            expected ==
                IF tentpole THEN "Tentpole"
                ELSE IF under THEN "Underperformer"
                ELSE IF niche THEN "Niche Gem"
                ELSE IF workhorse THEN "Workhorse"
                ELSE IF acceptable THEN "Acceptable"
                ELSE "Marginal"
        IN  /\ ret.label \in Labels
            /\ ret.label = expected
            /\ (c = 90 /\ v = 250) => ret.label = "Tentpole"

\* A big-budget, big-value title with non-positive ROI is labelled Tentpole
C2_Witness ==
    /\ Classified
    /\ call.total_cost >= 80 /\ call.total_value >= 200 /\ call.roi.n <= 0
    /\ ret.label = "Tentpole"

\* C12: a title with total cost 0 is valued without error with ROI 0, a title
\* with total hours 0 is valued without error with an infinite cost per hour,
\* and in both cases the classification is one of the six labels.
C12_ZeroCostZeroHoursRepresentable ==
    (/\ call.op = "compute_title_scorecard"
     /\ HasRow(titles, call.title_id) /\ HasRow(quality, call.title_id)) =>
        LET row == titles[call.title_id]
            cost == row.estimated_production_budget + row.estimated_marketing_spend
            series == EngagementOf(engagement, call.title_id)
            hours == SumFn(series, DOMAIN series)
        IN  (cost = 0 \/ hours = 0) =>
              /\ ret.status = "ok"
              /\ cost = 0 => ret.roi = Zero
              /\ hours = 0 => ret.cost_per_hour_viewed = Inf
              /\ ret.classification \in Labels

C12_Witness ==
    /\ Scored
    /\ ret.total_cost = 0 /\ ret.roi = Zero
    /\ ret.total_hours_viewed = 0 /\ ret.cost_per_hour_viewed = Inf

(***************************************************************************)
(* Cash flows and discounting                                              *)
(*                                                                         *)
(* A weekly cash amount is value/12, value/duration or                     *)
(* (value/104) * decay_factor.  Weekly cash is carried in units of         *)
(* $M / CashPerM, with CashPerM = 312 * DecayScale, so that all three are  *)
(* integers (312 = lcm(12, 104); PVOD durations used divide 312).          *)
(* exp(-0.05 * k / 52) is the k-th power of DecayStep/DecayScale and       *)
(* (1 + rate)^(period) the period-th power of a per-period growth factor   *)
(* scaled by RateScale, both by truncating fixed-point multiplication.     *)
(***************************************************************************)
DecayScale == 1000
DecayStep == 999                 \* exp(-0.05/52) = 0.99904
RateScale == 10000
theatrical_weeks == 12
streaming_duration_weeks == 104
max_periods == 260
CashPerM == 312 * DecayScale
NpvGrain == CashPerM \div 100    \* discounted cash is taken in units of $10K

RECURSIVE PowFix(_, _, _)
\* (g/scale)^n scaled by scale, by squaring, truncating after each product
PowFix(g, scale, n) ==
    IF n = 0 THEN scale
    ELSE IF n % 2 = 1 THEN (PowFix(g, scale, n - 1) * g) \div scale
    ELSE LET half == PowFix(g, scale, n \div 2) IN (half * half) \div scale

decay_weights ==
    [k \in 0..(streaming_duration_weeks - 1) |-> PowFix(DecayStep, DecayScale, k)]
\* np.exp(-0.05 * weeks_since_start / 52), scaled by DecayScale
decay_factor(weeks_since_start) == decay_weights[weeks_since_start]

\* 1 + period_discount_rate = (1 + discount_rate) ** (1 / periods_per_year),
\* scaled by RateScale: the least factor whose periods_per_year-th power
\* reaches 1 + discount_rate
period_growth(discount_rate, periods_per_year) ==
    LET reaches(g) ==
            PowFix(g, RateScale, periods_per_year) * 100 >= (100 + discount_rate) * RateScale
        top == RateScale + (discount_rate * RateScale) \div 100
    IN  CHOOSE g \in RateScale..top :
            reaches(g) /\ \A h \in RateScale..(g - 1) : ~reaches(h)

\* Yearly discount rates (percent) and periods per year the runs draw from;
\* their growth factors, and the weekly powers a timeline needs, are tabulated
RateLevels == {0, 5, 10, 15}
PeriodsPerYear == {1, 12, 52}
growth_factors ==
    [r \in RateLevels |-> [p \in PeriodsPerYear |-> period_growth(r, p)]]
weekly_growth ==
    [r \in RateLevels |->
        [n \in 0..max_periods |-> PowFix(growth_factors[r][52], RateScale, n)]]

\* (1 + period_discount_rate) ** n for n >= 0, scaled by RateScale
growth_power(discount_rate, periods_per_year, n) ==
    IF discount_rate \in RateLevels /\ periods_per_year \in PeriodsPerYear
    THEN IF periods_per_year = 52 /\ n <= max_periods
         THEN weekly_growth[discount_rate][n]
         ELSE PowFix(growth_factors[discount_rate][periods_per_year], RateScale, n)
    ELSE PowFix(period_growth(discount_rate, periods_per_year), RateScale, n)

\* A discount factor that ignores the rate
undiscounted_factor(discount_rate, periods_per_year, period) == RateScale

\* discount_factor = 1 / ((1 + period_discount_rate) ** period), scaled by RateScale
discount_factor(discount_rate, periods_per_year, period) ==
    IF period >= 0
    THEN (RateScale * RateScale) \div growth_power(discount_rate, periods_per_year, period)
    ELSE growth_power(discount_rate, periods_per_year, 0 - period)

\* cashflow * discount_factor, in dollars
discounted(cashflow, factor) == (cashflow \div NpvGrain) * factor

\* compute_npv: cashflows is a function period -> weekly cash; the result is in dollars
compute_npv(cashflows, discount_rate, periods_per_year) ==
    IF DOMAIN cashflows = {} THEN 0
    ELSE LET term == [period \in DOMAIN cashflows |->
                        discounted(cashflows[period],
                                   discount_factor(discount_rate, periods_per_year, period))]
         IN  SumFn(term, DOMAIN cashflows)

(***************************************************************************)
(* windowing_simulator.py                                                  *)
(***************************************************************************)
\* range(start, start + n)
Range(start, n) == start..(start + n - 1)

\* The multiplier as the specification words it: 0.95 up to and including 90 days
claimed_streaming_multiplier(streaming_offset) ==
    IF streaming_offset < 45 THEN 7300
    ELSE IF streaming_offset <= 90 THEN 6935
    ELSE 6205 + 2 * (365 - Min(streaming_offset, 365))

\* The streaming multiplier of simulate_windowing_scenarios, in 7300ths:
\* 1.0, 0.95, 0.85 + (1 - min(offset/365, 1)) * 0.1
simulate_streaming_multiplier(streaming_offset) ==
    IF streaming_offset < 45 THEN 7300
    ELSE IF streaming_offset < 90 THEN 6935
    ELSE 6205 + 2 * (365 - Min(streaming_offset, 365))

\* The streaming multiplier of compute_cashflow_timeline, in 7300ths
timeline_streaming_multiplier(streaming_offset) ==
    IF streaming_offset < 45 THEN 7300
    ELSE IF streaming_offset < 90 THEN 6935
    ELSE 6205 + 2 * (365 - Min(streaming_offset, 365))

\* Window values shared by both operations (the code repeats these lines):
\* theatrical, PVOD, streaming, ad and license value of one scenario
window_values(title_row, title_engagement, quality_row, scenario, variance, multiplier) ==
    LET theatrical_value ==
            IF title_row.content_type = "Film"
            THEN estimate_theatrical_revenue(title_row, quality_row, variance)
            ELSE 0
        streaming_offset == Max(scenario.disney_plus_offset_days, scenario.hulu_offset_days)
        pvod_value ==
            IF theatrical_value > 0 /\ scenario.pvod_window_days > 0
            THEN estimate_pvod_revenue(theatrical_value, quality_row, streaming_offset)
            ELSE 0
        total_hours == SumFn(title_engagement, DOMAIN title_engagement)
        value_metrics == hours_to_value_metrics(
            total_hours, title_row, quality_row, title_row.platform_primary)
        base_streaming_value == value_metrics.total_streaming_value
        ad_value == value_metrics.ad_value
        streaming_multiplier == multiplier
        has_license == scenario.third_party_license_start_days > 0
        adjusted_streaming_value ==
            apply_license_cannibalization(
                (base_streaming_value * streaming_multiplier) \div 7300, has_license)
        license_value == IF has_license THEN scenario.third_party_license_fee ELSE 0
    IN  [theatrical_value |-> theatrical_value,
         pvod_value |-> pvod_value,
         streaming_offset |-> streaming_offset,
         base_streaming_value |-> base_streaming_value,
         streaming_multiplier |-> streaming_multiplier,
         adjusted_streaming_value |-> adjusted_streaming_value,
         ad_value |-> ad_value,
         license_value |-> license_value]

\* value / duration as weekly cash
PerWeek(value, duration) == (value * CashPerM) \div duration
\* (value / 104) * decay_factor as weekly cash
Decayed(value, weeks_since_start) ==
    value * (CashPerM \div (streaming_duration_weeks * DecayScale))
          * decay_factor(weeks_since_start)

\* The cashflows Series simulate_windowing_scenarios builds for one scenario
simulate_cashflows(v, scenario) ==
    LET theatrical == IF v.theatrical_value > 0 THEN Range(0, theatrical_weeks) ELSE {}
        pvod_start_week == scenario.theatrical_window_days \div 7
        pvod_duration_weeks == scenario.pvod_window_days \div 7
        pvod == IF v.pvod_value > 0 THEN Range(pvod_start_week, pvod_duration_weeks) ELSE {}
        streaming_start_week == v.streaming_offset \div 7
        streaming == Range(streaming_start_week, streaming_duration_weeks)
        license_week == scenario.third_party_license_start_days \div 7
        license == IF v.license_value > 0 THEN {license_week} ELSE {}
    IN  [week \in theatrical \cup pvod \cup streaming \cup license |->
            \* cashflows[week] = ... assigns; the PVOD loop runs after the theatrical loop
            (IF week \in pvod THEN PerWeek(v.pvod_value, pvod_duration_weeks)
             ELSE IF week \in theatrical THEN PerWeek(v.theatrical_value, theatrical_weeks)
             ELSE 0)
            \* cashflows[week] = cashflows.get(week, 0.0) + ...
            + (IF week \in streaming
               THEN Decayed(v.adjusted_streaming_value, week - streaming_start_week)
               ELSE 0)
            + (IF week \in license THEN v.license_value * CashPerM ELSE 0)]

\* One result row of simulate_windowing_scenarios
simulate_row(title_row, title_engagement, quality_row, scenario, variance) ==
    LET v == window_values(title_row, title_engagement, quality_row, scenario, variance,
               simulate_streaming_multiplier(
                   Max(scenario.disney_plus_offset_days, scenario.hulu_offset_days)))
        cashflows == simulate_cashflows(v, scenario)
        \* met.compute_npv(cashflows, periods_per_year=52): the default rate
        total_npv == compute_npv(cashflows, DISCOUNT_RATE, 52)
        total_value == v.theatrical_value + v.pvod_value + v.adjusted_streaming_value
                         + v.ad_value + v.license_value
    IN  [scenario_name |-> scenario.scenario_name,
         theatrical_window_days |-> scenario.theatrical_window_days,
         pvod_window_days |-> scenario.pvod_window_days,
         streaming_offset_days |-> v.streaming_offset,
         license_start_days |-> scenario.third_party_license_start_days,
         theatrical_value |-> v.theatrical_value,
         pvod_value |-> v.pvod_value,
         streaming_value |-> v.adjusted_streaming_value,
         ad_value |-> v.ad_value,
         license_value |-> v.license_value,
         total_value |-> total_value,
         total_npv |-> total_npv,
         \* locals of the loop body, kept for inspection
         streaming_multiplier |-> v.streaming_multiplier,
         cashflows |-> cashflows]

RECURSIVE simulate_rows(_, _, _, _, _, _)
\* The loop of simulate_windowing_scenarios; draws[i] is the variance drawn
\* while scenario i is processed
simulate_rows(title_id, scenarios, draws, title_row, title_engagement, quality_row) ==
    IF scenarios = <<>> THEN <<>>
    ELSE LET scenario == Head(scenarios)
             rest == simulate_rows(title_id, Tail(scenarios), Tail(draws),
                                   title_row, title_engagement, quality_row)
         IN  IF scenario.title_id # title_id
             THEN rest          \* continue
             ELSE <<simulate_row(title_row, title_engagement, quality_row,
                                 scenario, Head(draws))>> \o rest

\* simulate_windowing_scenarios
simulate_windowing_scenarios(title_id, scenarios, df_titles, df_engagement, df_quality, draws) ==
    IF ~HasRow(df_titles, title_id) \/ ~HasRow(df_quality, title_id)
    THEN NotFound
    ELSE [status |-> "ok",
          rows |-> simulate_rows(title_id, scenarios, draws, df_titles[title_id],
                                 EngagementOf(df_engagement, title_id), df_quality[title_id])]

\* A period total that leaves the ad cash out
period_total_without_ads(cf_theatrical, cf_pvod, cf_streaming, cf_ad, cf_license) ==
    cf_theatrical + cf_pvod + cf_streaming + cf_license

\* total_cf of one period
period_total(cf_theatrical, cf_pvod, cf_streaming, cf_ad, cf_license) ==
    cf_theatrical + cf_pvod + cf_streaming + cf_ad + cf_license

\* One pass of the period loop of compute_cashflow_timeline
timeline_cashflow(v, scenario, period) ==
    LET cf_theatrical ==
            IF v.theatrical_value > 0 /\ period < theatrical_weeks
            THEN PerWeek(v.theatrical_value, theatrical_weeks) ELSE 0
        pvod_start_period == scenario.theatrical_window_days \div 7
        pvod_duration_periods == scenario.pvod_window_days \div 7
        cf_pvod ==
            IF /\ v.pvod_value > 0
               /\ pvod_start_period <= period
               /\ period < pvod_start_period + pvod_duration_periods
            THEN PerWeek(v.pvod_value, pvod_duration_periods) ELSE 0
        streaming_start_period == v.streaming_offset \div 7
        in_streaming ==
            /\ streaming_start_period <= period
            /\ period < streaming_start_period + streaming_duration_weeks
        weeks_since_start == period - streaming_start_period
        cf_streaming ==
            IF in_streaming THEN Decayed(v.adjusted_streaming_value, weeks_since_start) ELSE 0
        cf_ad == IF in_streaming THEN Decayed(v.ad_value, weeks_since_start) ELSE 0
        license_period == scenario.third_party_license_start_days \div 7
        cf_license ==
            IF v.license_value > 0 /\ period = license_period
            THEN v.license_value * CashPerM ELSE 0
        total_cf == period_total(cf_theatrical, cf_pvod, cf_streaming, cf_ad, cf_license)
    IN  [period |-> period,
         theatrical_cf |-> cf_theatrical,
         pvod_cf |-> cf_pvod,
         streaming_cf |-> cf_streaming,
         ad_cf |-> cf_ad,
         license_cf |-> cf_license,
         total_cf |-> total_cf]

RECURSIVE with_npv_columns(_, _, _, _, _, _)
\* Rows lo..hi with discount_factor, discounted_cf and cumulative_npv (cumsum)
\* appended; `before` is the cumulative sum of the rows preceding lo
with_npv_columns(cashflows, lo, hi, before, discount_rate, periods_per_year) ==
    IF lo > hi THEN <<>>
    ELSE IF lo = hi THEN
        LET row == cashflows[lo]
            factor == discount_factor(discount_rate, periods_per_year, row.period)
            discounted_cf == discounted(row.total_cf, factor)
        IN  << [period |-> row.period,
                theatrical_cf |-> row.theatrical_cf,
                pvod_cf |-> row.pvod_cf,
                streaming_cf |-> row.streaming_cf,
                ad_cf |-> row.ad_cf,
                license_cf |-> row.license_cf,
                total_cf |-> row.total_cf,
                discount_factor |-> factor,
                discounted_cf |-> discounted_cf,
                cumulative_npv |-> before + discounted_cf] >>
    ELSE
        LET mid == (lo + hi) \div 2
            left == with_npv_columns(cashflows, lo, mid, before,
                                     discount_rate, periods_per_year)
            right == with_npv_columns(cashflows, mid + 1, hi, left[Len(left)].cumulative_npv,
                                      discount_rate, periods_per_year)
        IN  left \o right

\* compute_cashflow_timeline; row i + 1 of df_cf is period i.  discount_rate
\* is the value of asmp.DISCOUNT_RATE when the function runs.
compute_cashflow_timeline(title_id, scenario, df_titles, df_engagement, df_quality, periods_per_year, variance, discount_rate) ==
    IF ~HasRow(df_titles, title_id) \/ ~HasRow(df_quality, title_id)
    THEN NotFound
    ELSE
      LET v == window_values(df_titles[title_id], EngagementOf(df_engagement, title_id),
                 df_quality[title_id], scenario, variance,
                 timeline_streaming_multiplier(
                     Max(scenario.disney_plus_offset_days, scenario.hulu_offset_days)))
          cashflows == [i \in 1..max_periods |-> timeline_cashflow(v, scenario, i - 1)]
      IN  [status |-> "ok",
           df_cf |-> with_npv_columns(cashflows, 1, max_periods, 0,
                                      discount_rate, periods_per_year),
           \* locals, kept for inspection
           streaming_multiplier |-> v.streaming_multiplier,
           adjusted_streaming_value |-> v.adjusted_streaming_value,
           theatrical_value |-> v.theatrical_value,
           pvod_value |-> v.pvod_value,
           ad_value |-> v.ad_value,
           license_value |-> v.license_value]

(***************************************************************************)
(* Windowing runs: one catalogued title, scenarios drawn per run           *)
(***************************************************************************)
\* The WindowingScenario dataclass: fields are stored as given
WindowingScenario(scenario_name, title_id, theatrical_window_days, pvod_window_days, disney_plus_offset_days, hulu_offset_days, third_party_license_start_days, third_party_license_fee) ==
    [scenario_name |-> scenario_name, title_id |-> title_id,
     theatrical_window_days |-> theatrical_window_days,
     pvod_window_days |-> pvod_window_days,
     disney_plus_offset_days |-> disney_plus_offset_days,
     hulu_offset_days |-> hulu_offset_days,
     third_party_license_start_days |-> third_party_license_start_days,
     third_party_license_fee |-> third_party_license_fee]

\* create_default_windowing_scenarios
create_default_windowing_scenarios(title_id, content_type) ==
    IF content_type = "Film"
    THEN << WindowingScenario("Traditional Theatrical", title_id, 90, 45, 90, 90, 0, 0),
            WindowingScenario("Short Window", title_id, 45, 30, 45, 45, 0, 0),
            WindowingScenario("Day-and-Date Streaming", title_id, 0, 0, 0, 0, 0, 0),
            WindowingScenario("With Licensing Deal", title_id, 90, 45, 90, 90, 730, 50) >>
    ELSE << WindowingScenario("Exclusive Streaming", title_id, 0, 0, 0, 0, 0, 0),
            WindowingScenario("License After 1 Year", title_id, 0, 0, 0, 0, 365, 30) >>

Scenario(title_id, thw, pvw, dp, hu, lic) ==
    WindowingScenario("Scenario 1", title_id, thw, pvw, dp, hu, lic[1], lic[2])

\* Scenarios with non-negative day fields and all cash inside the horizon
WellFormedScenarios ==
    { Scenario(1, 90, 45, dp, hu, lic) :
        dp \in {0, 44, 45, 89, 90, 91, 400},
        hu \in {0, 60},
        lic \in { <<0, 0>>, <<730, 50>> } }
    \cup
    { Scenario(1, thw, pvw, dp, 0, lic) :
        thw \in {0, 45, 90},
        pvw \in {0, 5, 30, 45},
        dp \in {0, 90},
        lic \in { <<0, 0>>, <<730, 50>> } }

\* Scenarios with a negative field, or with a window past the 260-week horizon
MalformedScenarios ==
    { Scenario(1, 0 - 14, 30, 45, 0, <<0, 0>>),
      Scenario(1, 45, 0 - 30, 45, 0, <<0, 0>>),
      Scenario(1, 45, 30, 0 - 7, 0 - 7, <<0, 0>>),
      Scenario(1, 45, 30, 45, 0, <<0 - 7, 50>>),
      Scenario(1, 45, 30, 2000, 0, <<0, 0>>),
      Scenario(1, 45, 30, 45, 0, <<2000, 50>>),
      Scenario(1, 1900, 30, 45, 0, <<0, 0>>) }

\* The selected title is 1; a scenario may have been built for another title
Scenarios ==
    WellFormedScenarios \cup MalformedScenarios
        \cup { Scenario(2, 90, 45, 90, 90, <<0, 0>>) }

WindowTitleRows ==
    { TitleRow(1, "Marvel", "Action", "Disney+", "Film", <<"High", 90, 30>>,
               Date(0), Date(20), Date(100), NaT),
      TitleRow(1, "Hulu Originals", "Drama", "Hulu", "Film", <<"Low", 15, 5>>,
               Date(0), NaT, NaT, Date(60)),
      TitleRow(1, "Hulu Originals", "Drama", "Hulu", "Series", <<"Low", 15, 5>>,
               NaT, NaT, NaT, Date(0)) }

InitWindow ==
    /\ \E row \in WindowTitleRows : titles = (1 :> row)
    /\ \E q \in QualityRows : quality = (1 :> q)
    /\ \E srs \in {NoRows, (0 :> 1500 @@ 1 :> 1500)} : engagement = (1 :> srs)
    /\ call = NoCall
    /\ ret = NoResult
    /\ asmp_DISCOUNT_RATE = DISCOUNT_RATE
    /\ sessions = <<>>

\* simulate: simulate_windowing_scenarios on one of the given scenario lists;
\* runs holds pairs <<scenarios, draws>>
SimulateRun(runs) ==
    /\ call = NoCall
    /\ \E title_id \in TitleIds, run \in runs :
        /\ call' = [op |-> "simulate_windowing_scenarios", title_id |-> title_id,
                    scenarios |-> run[1]]
        /\ ret' = simulate_windowing_scenarios(title_id, run[1], titles,
                                               engagement, quality, run[2])
        /\ UNCHANGED <<titles, engagement, quality, asmp_DISCOUNT_RATE, sessions>>

\* buildTimeline: compute_cashflow_timeline with weekly periods
TimelineRun(scenarios) ==
    /\ call = NoCall
    /\ \E title_id \in TitleIds, scenario \in scenarios, variance \in VarianceDraws :
        /\ call' = [op |-> "compute_cashflow_timeline", title_id |-> title_id,
                    scenario |-> scenario]
        /\ ret' = compute_cashflow_timeline(title_id, scenario, titles, engagement,
                                            quality, 52, variance, asmp_DISCOUNT_RATE)
        /\ UNCHANGED <<titles, engagement, quality, asmp_DISCOUNT_RATE, sessions>>

\* One scenario per run, with the variance drawn while it is processed
WindowRuns ==
    { << <<scenario>>, <<variance>> >> : scenario \in Scenarios, variance \in VarianceDraws }

Simulate == SimulateRun(WindowRuns)

BuildTimeline == TimelineRun(Scenarios)

NextWindow == Simulate \/ BuildTimeline

SpecWindow == InitWindow /\ [][NextWindow]_vars

Simulated ==
    /\ call.op = "simulate_windowing_scenarios"
    /\ ret.status = "ok"
    /\ Len(ret.rows) = 1

TimelineBuilt == call.op = "compute_cashflow_timeline" /\ ret.status = "ok"

\* The scenario of the run in progress
RunScenario ==
    IF call.op = "compute_cashflow_timeline" THEN call.scenario ELSE call.scenarios[1]

RunOffset ==
    Max(RunScenario.disney_plus_offset_days, RunScenario.hulu_offset_days)

\* Sum of one column of a timeline
ColumnSum(df, column) == SumFn([i \in DOMAIN df |-> df[i][column]], DOMAIN df)

NonNegativeFields(scenario) ==
    /\ scenario.theatrical_window_days >= 0
    /\ scenario.pvod_window_days >= 0
    /\ scenario.disney_plus_offset_days >= 0
    /\ scenario.hulu_offset_days >= 0
    /\ scenario.third_party_license_start_days >= 0

\* C3: every period row of a timeline has total_cf equal to the sum of its
\* theatrical, PVOD, streaming, ad and license cash, and the timeline has one
\* row per period 0 .. max_periods - 1.
C3_TotalIsSumOfComponents ==
    TimelineBuilt =>
        /\ Len(ret.df_cf) = max_periods
        /\ \A i \in 1..max_periods :
            LET row == ret.df_cf[i]
            IN  /\ row.period = i - 1
                /\ row.total_cf = row.theatrical_cf + row.pvod_cf + row.streaming_cf
                                    + row.ad_cf + row.license_cf

\* A timeline with a period where theatrical, streaming and ad cash overlap,
\* a period with PVOD cash and a period with the license lump
C3_Witness ==
    /\ TimelineBuilt
    /\ \E i \in 1..max_periods :
        /\ ret.df_cf[i].theatrical_cf > 0
        /\ ret.df_cf[i].streaming_cf > 0
        /\ ret.df_cf[i].ad_cf > 0
    /\ \E i \in 1..max_periods : ret.df_cf[i].pvod_cf > 0
    /\ \E i \in 1..max_periods : ret.df_cf[i].license_cf > 0

\* C4: when the 104-week streaming window lies inside the horizon, the
\* undiscounted streaming cash of a timeline sums to the adjusted streaming
\* value and the undiscounted ad cash sums to the ad value.
C4_StreamingCashSumsToValue ==
    (/\ TimelineBuilt
     /\ RunOffset >= 0
     /\ RunOffset \div 7 + streaming_duration_weeks <= max_periods)
    => /\ ColumnSum(ret.df_cf, "streaming_cf") = ret.adjusted_streaming_value * CashPerM
       /\ ColumnSum(ret.df_cf, "ad_cf") = ret.ad_value * CashPerM

\* C5: for a scenario with non-negative day fields the theatrical value is
\* paid in twelve equal parts in periods 0..11, a positive PVOD value is
\* spread evenly over its window and sums to the PVOD value, and a positive
\* license value is paid once, in period start // 7, and sums to itself.
C5_WindowCashConserved ==
    (TimelineBuilt /\ NonNegativeFields(RunScenario)) =>
        /\ \A i \in 1..max_periods :
            ret.df_cf[i].theatrical_cf =
                IF i - 1 < theatrical_weeks
                THEN PerWeek(ret.theatrical_value, theatrical_weeks) ELSE 0
        /\ ret.pvod_value > 0 =>
            /\ ColumnSum(ret.df_cf, "pvod_cf") = ret.pvod_value * CashPerM
            /\ \A i, j \in 1..max_periods :
                (ret.df_cf[i].pvod_cf > 0 /\ ret.df_cf[j].pvod_cf > 0)
                    => ret.df_cf[i].pvod_cf = ret.df_cf[j].pvod_cf
        /\ ret.license_value > 0 =>
            /\ ColumnSum(ret.df_cf, "license_cf") = ret.license_value * CashPerM
            /\ \A i \in 1..max_periods :
                ret.df_cf[i].license_cf > 0
                    => i - 1 = RunScenario.third_party_license_start_days \div 7

\* The multiplier with the 0.95 band ending before 90 days
halfopen_streaming_multiplier(streaming_offset) ==
    IF streaming_offset < 45 THEN 7300
    ELSE IF streaming_offset < 90 THEN 6935
    ELSE 6205 + 2 * (365 - Min(streaming_offset, 365))

\* C6 as stated: the streaming multiplier is 1.0 below 45 days, 0.95 from 45
\* to 90 days inclusive and 0.85 + 0.1 * (1 - min(offset, 365) / 365) above 90
\* days, in simulate and in buildTimeline alike.
C6_MultiplierInclusiveBand ==
    /\ Simulated =>
        ret.rows[1].streaming_multiplier = claimed_streaming_multiplier(RunOffset)
    /\ TimelineBuilt =>
        ret.streaming_multiplier = claimed_streaming_multiplier(RunOffset)

\* C6 amended: the streaming multiplier is 1.0 below 45 days, 0.95 for
\* 45 <= offset < 90 and 0.85 + 0.1 * (1 - min(offset, 365) / 365) from 90
\* days on; simulate and buildTimeline apply this same function of the
\* scenario's offset, so they agree on every scenario.
C6_MultiplierHalfOpenBand ==
    /\ Simulated =>
        ret.rows[1].streaming_multiplier = halfopen_streaming_multiplier(RunOffset)
    /\ TimelineBuilt =>
        ret.streaming_multiplier = halfopen_streaming_multiplier(RunOffset)

\* A timeline built for an offset of exactly 90 days uses 6755/7300
C6_Witness ==
    /\ TimelineBuilt
    /\ RunOffset = 90
    /\ ret.streaming_multiplier = 6755

\* Malformed as the specification defines it: a negative window length or
\* offset, or a streaming offset or license start past the 260-week horizon
IsMalformed(scenario) ==
    \/ ~NonNegativeFields(scenario)
    \/ Max(scenario.disney_plus_offset_days, scenario.hulu_offset_days) \div 7 >= max_periods
    \/ scenario.third_party_license_start_days \div 7 >= max_periods

WindowOps == {"simulate_windowing_scenarios", "compute_cashflow_timeline"}

\* C8: a run on a malformed scenario for a catalogued title ends in a
\* validation error; it yields no result row and no timeline.
C8_MalformedScenarioRejected ==
    (/\ call.op \in WindowOps
     /\ HasRow(titles, call.title_id)
     /\ IsMalformed(RunScenario))
    => ret.status = "ValidationError"

(***************************************************************************)
(* Discounting runs: compute_npv on a drawn series, at rate 0 and at two   *)
(* drawn rates                                                             *)
(***************************************************************************)
MaxNpvPeriod == 2       \* the drawn series cover the periods 0..MaxNpvPeriod
CashLevels == {0, 1, 2} \* $M per period

NpvSeries == [0..MaxNpvPeriod -> { m * CashPerM : m \in CashLevels }]

InitNpv ==
    /\ titles = <<>> /\ engagement = <<>> /\ quality = <<>>
    /\ \E cashflows \in NpvSeries, low \in RateLevels, high \in RateLevels,
          periods_per_year \in PeriodsPerYear :
        /\ low < high
        /\ call = [op |-> "arguments", cashflows |-> cashflows, low |-> low,
                   high |-> high, periods_per_year |-> periods_per_year]
    /\ ret = NoResult
    /\ asmp_DISCOUNT_RATE = DISCOUNT_RATE
    /\ sessions = <<>>

\* compute_npv on the same series at rate 0, at the lower and at the higher rate
CompareNpv ==
    /\ call.op = "arguments"
    /\ call' = [call EXCEPT !.op = "compute_npv"]
    /\ ret' = [status |-> "ok",
               at_zero |-> compute_npv(call.cashflows, 0, call.periods_per_year),
               at_low |-> compute_npv(call.cashflows, call.low, call.periods_per_year),
               at_high |-> compute_npv(call.cashflows, call.high, call.periods_per_year)]
    /\ UNCHANGED <<titles, engagement, quality, asmp_DISCOUNT_RATE, sessions>>

NextNpv == CompareNpv

SpecNpv == InitNpv /\ [][NextNpv]_vars

NpvCompared == call.op = "compute_npv"

\* The undiscounted sum of a series, in the unit compute_npv returns
PlainSum(cashflows) ==
    SumFn([p \in DOMAIN cashflows |-> (cashflows[p] \div NpvGrain) * RateScale],
          DOMAIN cashflows)

\* C7 as stated: for a non-negative series the NPV at the higher rate is
\* strictly below the NPV at the lower rate unless the series is all zero, in
\* which case both are equal; at rate 0 the NPV is the plain sum.
C7_NpvStrictlyDecreasing ==
    NpvCompared =>
        /\ IF \A p \in DOMAIN call.cashflows : call.cashflows[p] = 0
           THEN ret.at_high = ret.at_low
           ELSE ret.at_high < ret.at_low
        /\ ret.at_zero = PlainSum(call.cashflows)

\* C7 amended: for a non-negative series the NPV never rises with the rate;
\* it is strictly lower at the higher rate exactly when some period after
\* period 0 carries positive cash, and equal when all cash falls in period 0
\* (or the series is all zero); at rate 0 the NPV is the plain sum.
C7_NpvDecreasingPastPeriodZero ==
    NpvCompared =>
        /\ ret.at_high <= ret.at_low
        /\ (ret.at_high < ret.at_low)
               <=> (\E p \in DOMAIN call.cashflows : p >= 1 /\ call.cashflows[p] > 0)
        /\ ret.at_zero = PlainSum(call.cashflows)

\* A series whose only cash falls in period 0 has the same NPV at both rates
C7_Witness ==
    /\ NpvCompared
    /\ call.cashflows[0] > 0
    /\ \A p \in DOMAIN call.cashflows : p >= 1 => call.cashflows[p] = 0
    /\ ret.at_high = ret.at_low
    /\ ret.at_low = PlainSum(call.cashflows)

(***************************************************************************)
(* Catalogue runs: tables that may lack rows, every lookup operation       *)
(***************************************************************************)
\* to_dict("records")[0] if not quality_row.empty else {}
EmptyDict == [key \in {} |-> 0]

\* One result row of aggregate_title_value; a later ** entry replaces an
\* earlier one with the same key
aggregate_row(title_row, title_engagement, quality_dict) ==
    LET engagement_metrics == compute_engagement_curve(title_engagement)
        platform == title_row.platform_primary
        value_metrics == hours_to_value_metrics(
            engagement_metrics.total_hours, title_row, quality_dict, platform)
    IN  value_metrics @@ quality_dict @@ engagement_metrics @@
        [title_id |-> title_row.title_id,
         brand |-> title_row.brand,
         genre |-> title_row.genre,
         platform_primary |-> platform,
         content_type |-> title_row.content_type,
         production_budget |-> title_row.estimated_production_budget,
         marketing_spend |-> title_row.estimated_marketing_spend]

\* aggregate_title_value: one row per row of df_titles
aggregate_title_value(df_titles, df_engagement, df_quality) ==
    [status |-> "ok",
     rows |-> [title_id \in DOMAIN df_titles |->
                  aggregate_row(df_titles[title_id],
                                EngagementOf(df_engagement, title_id),
                                IF HasRow(df_quality, title_id)
                                THEN df_quality[title_id] ELSE EmptyDict)]]

\* The catalogue row of a title: odd ids are Marvel films, even ids Hulu series
CatalogueRow(id) ==
    IF id % 2 = 1
    THEN TitleRow(id, "Marvel", "Action", "Disney+", "Film", <<"High", 90, 30>>,
                  Date(0), Date(20), Date(100), NaT)
    ELSE TitleRow(id, "Hulu Originals", "Drama", "Hulu", "Series", <<"Low", 15, 5>>,
                  NaT, NaT, NaT, Date(0))

CatalogueQuality ==
    [critic_score |-> 90, audience_score |-> 90, imdb_rating |-> 8, buzz_score |-> 80]

\* Each table holds rows for any subset of the title ids
InitLookup ==
    /\ \E ids \in SUBSET TitleIds : titles = [id \in ids |-> CatalogueRow(id)]
    /\ \E ids \in SUBSET TitleIds : quality = [id \in ids |-> CatalogueQuality]
    /\ \E ids \in {{}, TitleIds} : engagement = [id \in ids |-> (0 :> 1500 @@ 1 :> 1500)]
    /\ call = NoCall
    /\ ret = NoResult
    /\ asmp_DISCOUNT_RATE = DISCOUNT_RATE
    /\ sessions = <<>>

\* The default scenario lists, with the variance drawn for each scenario
DefaultRuns ==
    { <<create_default_windowing_scenarios(id, content_type), draws>> :
        id \in TitleIds, content_type \in {"Film", "Series"},
        draws \in { <<100, 100, 100, 100>>, <<80, 120, 100, 80>> } }

DefaultScenarios ==
    UNION { { run[1][i] : i \in DOMAIN run[1] } : run \in DefaultRuns }

SimulateDefaults == SimulateRun(DefaultRuns)

BuildDefaultTimeline == TimelineRun(DefaultScenarios)

\* aggregate: aggregate_title_value over the whole catalogue
Aggregate ==
    /\ call = NoCall
    /\ call' = [op |-> "aggregate_title_value"]
    /\ ret' = aggregate_title_value(titles, engagement, quality)
    /\ UNCHANGED <<titles, engagement, quality, asmp_DISCOUNT_RATE, sessions>>

NextLookup == ValueTitle \/ SimulateDefaults \/ BuildDefaultTimeline \/ Aggregate

SpecLookup == InitLookup /\ [][NextLookup]_vars

TitleLookupOps ==
    {"compute_title_scorecard", "simulate_windowing_scenarios", "compute_cashflow_timeline"}

\* C9: an operation that looks up a title id absent from the titles table or
\* from the quality table ends in NotFound; no operation substitutes default
\* values for a missing row.
C9_AbsentIdRaisesNotFound ==
    /\ (/\ call.op \in TitleLookupOps
        /\ ~(HasRow(titles, call.title_id) /\ HasRow(quality, call.title_id)))
       => ret = NotFound
    /\ (/\ call.op = "aggregate_title_value"
        /\ \E title_id \in DOMAIN titles : ~HasRow(quality, title_id))
       => ret = NotFound


\* C13: within one simulate call every scenario of the same film is valued
\* from the same theatrical value (the runs being pure functions of title,
\* series, quality, scenario and configuration).
C13_ScenariosShareTheatricalValue ==
    (call.op = "simulate_windowing_scenarios" /\ ret.status = "ok") =>
        \A i, j \in DOMAIN ret.rows :
            ret.rows[i].theatrical_value = ret.rows[j].theatrical_value


(***************************************************************************)
(* The Windowing Lab page: script runs of concurrent sessions share the    *)
(* module attribute asmp.DISCOUNT_RATE                                     *)
(***************************************************************************)
MaxSessions == 2        \* sessions are 1..MaxSessions, one script run each
SessionIds == 1..MaxSessions

\* Positions of the "Annual Discount Rate (%)" slider
SliderLevels == {5, 15}

\* The scenario lists configured in the page's tabs
PageScenarioLists ==
    { << Scenario(1, 45, 30, 0, 0, <<0, 0>>), Scenario(1, 90, 45, 400, 0, <<730, 50>>) >> }

\* Variance draws of one button press: scenario i of the simulation draws
\* draws[i], its timeline draws[2 + i]
PageDraws == { <<100, 100, 100, 100>>, <<80, 120, 100, 80>> }

PageTitleRows ==
    { TitleRow(1, "Marvel", "Action", "Disney+", "Film", <<"High", 90, 30>>,
               Date(0), Date(20), Date(100), NaT),
      TitleRow(1, "Hulu Originals", "Drama", "Hulu", "Series", <<"Low", 15, 5>>,
               NaT, NaT, NaT, Date(0)) }

NotStarted == [pc |-> "start"]
Ended == [pc |-> "done"]
Aborted == [pc |-> "aborted"]

\* The body of the "Run Windowing Simulation" button
run_windowing_simulation(selected_title_id, scenarios, df_titles, df_engagement, df_quality, draws, discount_rate) ==
    LET results_df == simulate_windowing_scenarios(selected_title_id, scenarios, df_titles,
                                                   df_engagement, df_quality, draws)
        cashflow_timelines ==
            [i \in DOMAIN scenarios |->
                compute_cashflow_timeline(selected_title_id, scenarios[i], df_titles,
                                          df_engagement, df_quality, 52, draws[2 + i],
                                          discount_rate)]
    IN  IF results_df.status # "ok" THEN results_df
        ELSE [status |-> "ok",
              windowing_results |-> results_df.rows,
              windowing_scenarios |-> scenarios,
              cashflow_timelines |-> cashflow_timelines]

InitPage ==
    /\ \E row \in PageTitleRows : titles = (1 :> row)
    /\ quality = (1 :> [critic_score |-> 90, audience_score |-> 90,
                        imdb_rating |-> 8, buzz_score |-> 80])
    /\ engagement = (1 :> (0 :> 1500 @@ 1 :> 1500))
    /\ call = NoCall
    /\ ret = NoResult
    /\ asmp_DISCOUNT_RATE = DISCOUNT_RATE
    /\ sessions = [s \in SessionIds |-> NotStarted]

\* The slider is read and original_discount_rate = asmp.DISCOUNT_RATE
PageSave ==
    \E s \in SessionIds, discount_rate_pct \in SliderLevels :
        /\ sessions[s].pc = "start"
        /\ sessions' = [sessions EXCEPT ![s] =
               [pc |-> "saved", discount_rate_pct |-> discount_rate_pct,
                original_discount_rate |-> asmp_DISCOUNT_RATE]]
        /\ UNCHANGED <<titles, engagement, quality, call, ret, asmp_DISCOUNT_RATE>>

\* asmp.DISCOUNT_RATE = discount_rate_pct / 100.0
PageOverwrite ==
    \E s \in SessionIds :
        /\ sessions[s].pc = "saved"
        /\ asmp_DISCOUNT_RATE' = sessions[s].discount_rate_pct
        /\ sessions' = [sessions EXCEPT ![s].pc = "overwritten"]
        /\ UNCHANGED <<titles, engagement, quality, call, ret>>

\* The button is pressed in this run (in one run per behaviour): the
\* simulation and the timelines are computed and stored
PageRunSimulation ==
    /\ call = NoCall
    /\ sessions[1].pc = "overwritten"
    /\ \E scenarios \in PageScenarioLists, draws \in PageDraws :
        /\ call' = [op |-> "run_windowing_simulation", title_id |-> 1,
                    scenarios |-> scenarios,
                    discount_rate_pct |-> sessions[1].discount_rate_pct,
                    DISCOUNT_RATE |-> asmp_DISCOUNT_RATE]
        /\ ret' = run_windowing_simulation(1, scenarios, titles, engagement, quality,
                                           draws, asmp_DISCOUNT_RATE)
        /\ UNCHANGED <<titles, engagement, quality, asmp_DISCOUNT_RATE, sessions>>

\* The run is cut short by an exception between the overwrite and the reset
PageAbort ==
    \E s \in SessionIds :
        /\ sessions[s].pc = "overwritten"
        /\ sessions' = [sessions EXCEPT ![s] = Aborted]
        /\ UNCHANGED <<titles, engagement, quality, call, ret, asmp_DISCOUNT_RATE>>

\* asmp.DISCOUNT_RATE = original_discount_rate, the script's last statement
PageReset ==
    \E s \in SessionIds :
        /\ sessions[s].pc = "overwritten"
        /\ asmp_DISCOUNT_RATE' = sessions[s].original_discount_rate
        /\ sessions' = [sessions EXCEPT ![s] = Ended]
        /\ UNCHANGED <<titles, engagement, quality, call, ret>>

NextPage == PageSave \/ PageOverwrite \/ PageRunSimulation \/ PageAbort \/ PageReset

SpecPage == InitPage /\ [][NextPage]_vars

AllRunsEnded == \A s \in SessionIds : sessions[s].pc \in {"done", "aborted"}

\* C14: once all page runs have ended, whatever their interleaving and also
\* when a run aborted between the overwrite and the write-back, the
\* process-wide discount rate equals the value it had before the first run.
C14_DiscountRateRestored ==
    AllRunsEnded => asmp_DISCOUNT_RATE = DISCOUNT_RATE

PageSimulated == call.op = "run_windowing_simulation" /\ ret.status = "ok"

\* C15: for the rate r that is configured when the page computes, simulate's
\* total_npv and the timeline's discount factors are both computed with r.
C15_ConfiguredRateHonoured ==
    PageSimulated =>
        /\ \A i \in DOMAIN ret.windowing_results :
               ret.windowing_results[i].total_npv =
                   compute_npv(ret.windowing_results[i].cashflows,
                               call.DISCOUNT_RATE, 52)
        /\ \A i \in DOMAIN ret.cashflow_timelines :
               \A k \in DOMAIN ret.cashflow_timelines[i].df_cf :
                   ret.cashflow_timelines[i].df_cf[k].discount_factor =
                       discount_factor(call.DISCOUNT_RATE, 52,
                                       ret.cashflow_timelines[i].df_cf[k].period)


(***************************************************************************)
(* Comparable titles and the greenlight forecast                           *)
(***************************************************************************)
RatLess(a, b) == a.n * b.d < b.n * a.d

\* compute_all_scorecards; draws[title_id] is the variance drawn while the
\* title is valued.  df is the frame's rows by title; no rows, no columns.
compute_all_scorecards(df_titles, df_engagement, df_quality, draws) ==
    IF \E title_id \in DOMAIN df_titles : ~HasRow(df_quality, title_id)
    THEN NotFound
    ELSE [status |-> "ok",
          df |-> [title_id \in DOMAIN df_titles |->
                     compute_title_scorecard(title_id, df_titles, df_engagement,
                                             df_quality, draws[title_id])]]

RECURSIVE nlargest_from(_, _, _)
nlargest_from(keys, remaining, n) ==
    IF n <= 0 \/ remaining = {} THEN <<>>
    ELSE LET first == CHOOSE i \in remaining :
                          \A j \in remaining :
                              /\ ~RatLess(keys[i], keys[j])
                              /\ (j < i => RatLess(keys[j], keys[i]))
         IN  <<first>> \o nlargest_from(keys, remaining \ {first}, n - 1)

\* A smallest-first selection
nsmallest(keys, n) ==
    nlargest_from([i \in DOMAIN keys |-> Ratio(0 - keys[i].n, keys[i].d)], DOMAIN keys, n)

\* DataFrame.nlargest(n, column), keep="first": the positions of the n largest
\* keys, largest first, equal keys in row order
nlargest(keys, n) == nlargest_from(keys, DOMAIN keys, n)

tier_index(tier) == CASE tier = "Low" -> 0 [] tier = "Medium" -> 1 [] tier = "High" -> 2

\* Budget tier similarity: 3 for the same tier, 1 for adjacent tiers
tier_similarity(row_tier, other_tier) ==
    IF row_tier = other_tier THEN 3
    ELSE IF tier_index(row_tier) - tier_index(other_tier) \in {0 - 1, 1} THEN 1
    ELSE 0

\* The rows of df_titles, in order, as a sequence
RowOrder(df) ==
    LET ids == DOMAIN df
        RECURSIVE order(_)
        order(left) == IF left = {} THEN <<>>
                       ELSE <<MinOf(left)>> \o order(left \ {MinOf(left)})
    IN  order(ids)

\* A score that leaves the hours term out
title_similarity_without_hours(row, target, row_hours, target_hours) ==
    Ratio((IF row.brand = target.brand THEN 5 ELSE 0)
            + (IF row.genre = target.genre THEN 4 ELSE 0)
            + (IF row.content_type = target.content_type THEN 3 ELSE 0)
            + tier_similarity(row.production_budget_tier, target.production_budget_tier),
          1)

\* The similarity score of one catalogue row for an existing target title:
\* whole + 2 * min(hours)/max(hours), as a ratio
title_similarity(row, target, row_hours, target_hours) ==
    LET whole == (IF row.brand = target.brand THEN 5 ELSE 0)
               + (IF row.genre = target.genre THEN 4 ELSE 0)
               + (IF row.content_type = target.content_type THEN 3 ELSE 0)
               + tier_similarity(row.production_budget_tier,
                                 target.production_budget_tier)
    IN  IF target_hours > 0
        THEN Ratio(whole * Max(row_hours, target_hours)
                     + 2 * Min(row_hours, target_hours),
                   Max(row_hours, target_hours))
        ELSE Ratio(whole, 1)

\* find_comparable_titles_for_title (existing-title mode)
find_comparable_titles_for_title(title_id, df_titles, df_scorecards, top_n) ==
    IF ~HasRow(df_titles, title_id) \/ ~HasRow(df_scorecards, title_id)
    THEN NotFound
    ELSE
      LET target == df_titles[title_id]
          target_scorecard == df_scorecards[title_id]
          ids == SelectSeq(RowOrder(df_titles),
                           LAMBDA id : HasRow(df_scorecards, id) /\ id # title_id)
          scores == [i \in DOMAIN ids |->
                        title_similarity(df_titles[ids[i]], target,
                                         df_scorecards[ids[i]].total_hours_viewed,
                                         target_scorecard.total_hours_viewed)]
          top == nlargest(scores, top_n)
      IN  [status |-> "ok",
           comps |-> [k \in DOMAIN top |->
               df_titles[ids[top[k]]] @@
               [total_hours_viewed |-> df_scorecards[ids[top[k]]].total_hours_viewed,
                total_value |-> df_scorecards[ids[top[k]]].total_value,
                roi |-> df_scorecards[ids[top[k]]].roi,
                total_cost |-> df_scorecards[ids[top[k]]].total_cost,
                similarity_score |-> scores[top[k]]]]]

\* The NewTitleConcept dataclass
NewTitleConcept(brand, genre, content_type, production_budget_estimate, marketing_spend_estimate, ip_familiarity, star_power_score, buzz_potential_score) ==
    [concept_name |-> "Concept", brand |-> brand, genre |-> genre,
     content_type |-> content_type,
     production_budget_estimate |-> production_budget_estimate,
     marketing_spend_estimate |-> marketing_spend_estimate,
     ip_familiarity |-> ip_familiarity,
     star_power_score |-> star_power_score,
     buzz_potential_score |-> buzz_potential_score]

FranchiseFamiliarity == {"Sequel", "Spin-off", "Franchise Core"}
FranchiseBrands == {"Marvel", "Star Wars", "Pixar"}

\* A concept score with the genre and content-type weights of the other mode
concept_similarity_swapped(row, concept) ==
    LET concept_tier ==
            IF concept.production_budget_estimate < 20 THEN "Low"
            ELSE IF concept.production_budget_estimate < 80 THEN "Medium"
            ELSE "High"
    IN  (IF row.brand = concept.brand THEN 5 ELSE 0)
      + (IF row.genre = concept.genre THEN 4 ELSE 0)
      + (IF row.content_type = concept.content_type THEN 3 ELSE 0)
      + tier_similarity(row.production_budget_tier, concept_tier)
      + (IF concept.ip_familiarity \in FranchiseFamiliarity /\ row.brand \in FranchiseBrands
         THEN 2 ELSE 0)

\* The similarity score of one catalogue row for a concept
concept_similarity(row, concept) ==
    LET concept_tier ==
            IF concept.production_budget_estimate < 20 THEN "Low"
            ELSE IF concept.production_budget_estimate < 80 THEN "Medium"
            ELSE "High"
    IN  (IF row.brand = concept.brand THEN 5 ELSE 0)
      + (IF row.genre = concept.genre THEN 3 ELSE 0)
      + (IF row.content_type = concept.content_type THEN 4 ELSE 0)
      + tier_similarity(row.production_budget_tier, concept_tier)
      + (IF concept.ip_familiarity \in FranchiseFamiliarity /\ row.brand \in FranchiseBrands
         THEN 2 ELSE 0)

\* find_comparable_titles (new-concept mode); selecting the scorecard columns
\* of a frame without columns raises KeyError
find_comparable_titles(concept, df_titles, df_scorecards, top_n) ==
    IF DOMAIN df_scorecards = {} THEN [status |-> "KeyError"]
    ELSE
      LET ids == SelectSeq(RowOrder(df_titles), LAMBDA id : HasRow(df_scorecards, id))
          scores == [i \in DOMAIN ids |-> concept_similarity(df_titles[ids[i]], concept)]
          top == nlargest([i \in DOMAIN ids |-> Ratio(scores[i], 1)], top_n)
      IN  [status |-> "ok",
           comps |-> [k \in DOMAIN top |->
               df_titles[ids[top[k]]] @@
               [total_hours_viewed |-> df_scorecards[ids[top[k]]].total_hours_viewed,
                total_value |-> df_scorecards[ids[top[k]]].total_value,
                roi |-> df_scorecards[ids[top[k]]].roi,
                classification |-> df_scorecards[ids[top[k]]].classification,
                similarity_score |-> scores[top[k]]]]]


\* Floats of the forecast are ratios n/d with d = StatScale (tenths); nan is 0/0
StatScale == 10
FloatNaN == Ratio(0, 0)
IsNaN(x) == x.d = 0 /\ x.n = 0
Float(tenths) == Ratio(tenths, StatScale)

\* x * num / den, x - y and x + y on floats; nan propagates
FloatScaled(x, num, den) == IF IsNaN(x) THEN FloatNaN ELSE Float((x.n * num) \div den)
FloatSub(x, y) == IF IsNaN(x) \/ IsNaN(y) THEN FloatNaN ELSE Float(x.n - y.n)
FloatAdd(x, y) == IF IsNaN(x) \/ IsNaN(y) THEN FloatNaN ELSE Float(x.n + y.n)

\* Python's max(a, b) and min(a, b): a unless b compares greater (smaller);
\* every comparison with nan is false
py_max(a, b) == IF ~IsNaN(a) /\ ~IsNaN(b) /\ b.n > a.n THEN b ELSE a
py_min(a, b) == IF ~IsNaN(a) /\ ~IsNaN(b) /\ b.n < a.n THEN b ELSE a

RECURSIVE isqrt_between(_, _, _)
\* The largest r in lo..hi with r * r <= x
isqrt_between(x, lo, hi) ==
    IF lo >= hi THEN lo
    ELSE LET mid == (lo + hi + 1) \div 2
         IN  IF mid * mid <= x THEN isqrt_between(x, mid, hi)
             ELSE isqrt_between(x, lo, mid - 1)

\* Series.mean(), .std() (sample standard deviation, nan for one value),
\* .min() and .max() of a non-empty column of integers, in tenths
column_distribution(values) ==
    LET count == Len(values)
        tenths == [i \in DOMAIN values |-> values[i] * StatScale]
        mean == SumSeq(tenths) \div count
        squares == [i \in DOMAIN values |-> (tenths[i] - mean) * (tenths[i] - mean)]
        std == IF count < 2 THEN FloatNaN
               ELSE Float(isqrt_between(SumSeq(squares) \div (count - 1), 0, 46340))
        least == CHOOSE v \in {tenths[i] : i \in DOMAIN values} :
                     \A i \in DOMAIN values : v <= tenths[i]
        most == CHOOSE v \in {tenths[i] : i \in DOMAIN values} :
                     \A i \in DOMAIN values : v >= tenths[i]
    IN  [mean |-> Float(mean), std |-> std, min |-> Float(least), max |-> Float(most)]

\* A ROI in percent, rounded down
roi_percent(roi) == (100 * roi.n) \div roi.d

\* compute_performance_distribution; the roi statistics are in percent
compute_performance_distribution(comps) ==
    IF comps = <<>>
    THEN LET zeros == [mean |-> Float(0), std |-> Float(0),
                       min |-> Float(0), max |-> Float(0)]
         IN  [total_hours_viewed |-> zeros, total_value |-> zeros, roi |-> zeros]
    ELSE [total_hours_viewed |->
              column_distribution([i \in DOMAIN comps |-> comps[i].total_hours_viewed]),
          total_value |->
              column_distribution([i \in DOMAIN comps |-> comps[i].total_value]),
          roi |->
              column_distribution([i \in DOMAIN comps |-> roi_percent(comps[i].roi)])]

\* concept_multiplier = (star_factor + buzz_factor) / 2, in 2000ths
concept_multiplier(concept) ==
    (800 + 80 * concept.star_power_score) + (800 + 4 * concept.buzz_potential_score)

\* ROI of a scenario value (in tenths of $M) for the concept's cost
scenario_roi(value, total_cost) ==
    IF total_cost > 0
    THEN IF IsNaN(value) THEN FloatNaN
         ELSE Ratio(value.n - total_cost * StatScale, total_cost * StatScale)
    ELSE Zero

\* A bull case capped by the smallest comparable instead of the largest
bull_case_from_min(dist, multiplier) ==
    FloatScaled(py_min(FloatScaled(FloatAdd(dist.mean, dist.std), 13, 10),
                       FloatScaled(dist.min, 12, 10)),
                multiplier * 13, 20000)

\* The bull case of one metric: min((mean + std) * 1.3, max * 1.2) * multiplier * 1.3
bull_case(dist, multiplier) ==
    FloatScaled(py_min(FloatScaled(FloatAdd(dist.mean, dist.std), 13, 10),
                       FloatScaled(dist.max, 12, 10)),
                multiplier * 13, 20000)

\* The bear case of one metric: max(mean - std, min) * multiplier * 0.7
bear_case(dist, multiplier) ==
    FloatScaled(py_max(FloatSub(dist.mean, dist.std), dist.min), multiplier * 7, 20000)

\* generate_scenarios
generate_scenarios(concept, distributions) ==
    LET multiplier == concept_multiplier(concept)
        total_cost == concept.production_budget_estimate + concept.marketing_spend_estimate
        base_hours == FloatScaled(distributions.total_hours_viewed.mean, multiplier, 2000)
        base_value == FloatScaled(distributions.total_value.mean, multiplier, 2000)
        bear_value == bear_case(distributions.total_value, multiplier)
        bull_value == bull_case(distributions.total_value, multiplier)
    IN  [base |-> [total_hours_viewed |-> base_hours,
                   total_value |-> base_value,
                   total_cost |-> total_cost,
                   roi |-> scenario_roi(base_value, total_cost)],
         bear |-> [total_hours_viewed |-> bear_case(distributions.total_hours_viewed,
                                                    multiplier),
                   total_value |-> bear_value,
                   total_cost |-> total_cost,
                   roi |-> scenario_roi(bear_value, total_cost)],
         bull |-> [total_hours_viewed |-> bull_case(distributions.total_hours_viewed,
                                                    multiplier),
                   total_value |-> bull_value,
                   total_cost |-> total_cost,
                   roi |-> scenario_roi(bull_value, total_cost)]]

\* A table that tests the base ROI alone
recommendation_label_base_only(base_roi, bear_roi) ==
    IF RatGT10(base_roi, 10) THEN "STRONG GREENLIGHT"
    ELSE IF RatGT10(base_roi, 5) THEN "GREENLIGHT"
    ELSE IF RatGT10(base_roi, 2) THEN "CONDITIONAL GREENLIGHT"
    ELSE IF RatGT10(base_roi, 0) THEN "MARGINAL"
    ELSE "PASS"

\* The decision table of generate_recommendation
recommendation_label(base_roi, bear_roi) ==
    IF RatGT10(base_roi, 10) /\ RatGT10(bear_roi, 3) THEN "STRONG GREENLIGHT"
    ELSE IF RatGT10(base_roi, 5) /\ RatGT10(bear_roi, 0) THEN "GREENLIGHT"
    ELSE IF RatGT10(base_roi, 2) THEN "CONDITIONAL GREENLIGHT"
    ELSE IF RatGT10(base_roi, 0) THEN "MARGINAL"
    ELSE "PASS"

StrongIp == {"Sequel", "Franchise Core"}

\* generate_recommendation: the parts of the narrative that vary
generate_recommendation(concept, scenarios, comps) ==
    IF ~Has(scenarios, "base")
    THEN [text |-> "Insufficient data to generate recommendation."]
    ELSE
      LET base_roi == Get(scenarios.base, "roi", Zero)
          bear_roi == IF Has(scenarios, "bear") THEN Get(scenarios.bear, "roi", Zero)
                      ELSE Zero
          \* comps["roi"].mean(), in percent
          avg_comp_roi ==
              IF comps = <<>> THEN FloatNaN
              ELSE Ratio(SumSeq([i \in DOMAIN comps |-> roi_percent(comps[i].roi)]),
                         100 * Len(comps))
      IN  [text |-> "Greenlight Forecast",
           comparable_titles |-> Len(comps),
           recommendation_text |-> recommendation_label(base_roi, bear_roi),
           key_factors |->
               (IF concept.ip_familiarity \in StrongIp
                THEN {"Strong IP foundation reduces risk"}
                ELSE IF concept.ip_familiarity = "New IP"
                THEN {"New IP carries higher execution risk"}
                ELSE {})
               \cup
               (IF concept.star_power_score >= 4 THEN {"Strong talent attachment"}
                ELSE IF concept.star_power_score <= 2
                THEN {"Limited star power may impact marketing"}
                ELSE {})
               \cup
               (IF concept.buzz_potential_score >= 70 THEN {"High buzz potential"}
                ELSE IF concept.buzz_potential_score <= 40
                THEN {"Lower buzz potential may require marketing investment"}
                ELSE {})
               \cup
               (IF avg_comp_roi.d > 0 /\ avg_comp_roi.n * 10 > 8 * avg_comp_roi.d
                THEN {"Comps show strong average ROI"}
                ELSE IF avg_comp_roi.d > 0 /\ avg_comp_roi.n * 10 < 3 * avg_comp_roi.d
                THEN {"Comps show modest average ROI"}
                ELSE {})]

\* forecast_new_title; draws[title_id] is the variance drawn for the title
forecast_new_title(concept, df_titles, df_engagement, df_quality, draws) ==
    LET df_scorecards == compute_all_scorecards(df_titles, df_engagement, df_quality, draws)
        found == find_comparable_titles(concept, df_titles, df_scorecards.df, 5)
    IN  IF df_scorecards.status # "ok" THEN df_scorecards
        ELSE IF found.status # "ok" THEN found
        ELSE IF found.comps = <<>>
        THEN [status |-> "ok",
              concept_name |-> concept.concept_name,
              comps |-> <<>>,
              scenarios |-> EmptyDict,
              recommendation |->
                  [text |-> "Unable to generate forecast: no comparable titles found."]]
        ELSE
          LET distributions == compute_performance_distribution(found.comps)
              scenarios == generate_scenarios(concept, distributions)
          IN  [status |-> "ok",
               concept_name |-> concept.concept_name,
               comps |-> [i \in DOMAIN found.comps |->
                             [brand |-> found.comps[i].brand,
                              genre |-> found.comps[i].genre,
                              content_type |-> found.comps[i].content_type,
                              similarity_score |-> found.comps[i].similarity_score,
                              total_hours_viewed |-> found.comps[i].total_hours_viewed,
                              total_value |-> found.comps[i].total_value,
                              roi |-> found.comps[i].roi]],
               distributions |-> distributions,
               scenarios |-> scenarios,
               recommendation |-> generate_recommendation(concept, scenarios, found.comps)]

\* Catalogue sizes and the titles a catalogue is made of
MaxCatalogue == 3       \* catalogued titles are 1..n for n up to MaxCatalogue
ProfileIds == 1..4

CatalogueProfile(id, k) ==
    CASE k = 1 -> [row |-> TitleRow(id, "Marvel", "Action", "Disney+", "Film",
                                    <<"High", 90, 30>>, Date(0), NaT, Date(100), NaT),
                   series |-> (0 :> 1500)]
      [] k = 2 -> [row |-> TitleRow(id, "Marvel", "Drama", "Disney+", "Series",
                                    <<"Medium", 40, 10>>, NaT, NaT, Date(0), NaT),
                   series |-> (0 :> 1500 @@ 1 :> 1500)]
      [] k = 3 -> [row |-> TitleRow(id, "Hulu Originals", "Action", "Hulu", "Series",
                                    <<"Low", 15, 5>>, NaT, NaT, NaT, Date(0)),
                   series |-> NoRows]
      [] k = 4 -> [row |-> TitleRow(id, "Hulu Originals", "Drama", "Hulu", "Film",
                                    <<"High", 90, 30>>, NaT, NaT, NaT, Date(0)),
                   series |-> (0 :> 1500)]

Catalogues == UNION { [1..n -> ProfileIds] : n \in 0..MaxCatalogue }

\* Variance draws of one valuation of the catalogue, by title
ScorecardDraws ==
    { [id \in 1..MaxCatalogue |-> 100], [id \in 1..MaxCatalogue |-> 80 + 20 * (id % 3)] }

ComparableOps == {"find_comparable_titles_for_title", "find_comparable_titles"}

AdjacentTiers ==
    { <<"Low", "Medium">>, <<"Medium", "Low">>, <<"Medium", "High">>, <<"High", "Medium">> }

TopNLevels == {0, 1, 2, 5}

ComparableConcepts ==
    { NewTitleConcept(brand, "Action", "Film", budget, 10, ip_familiarity, 3, 50) :
        brand \in {"Marvel", "Hulu Originals"},
        budget \in {19, 20, 79, 80},
        ip_familiarity \in {"New IP", "Sequel", "Spin-off", "Franchise Core"} }

InitGreenlight ==
    /\ \E c \in Catalogues :
        /\ titles = [id \in DOMAIN c |-> CatalogueProfile(id, c[id]).row]
        /\ engagement = [id \in DOMAIN c |-> CatalogueProfile(id, c[id]).series]
        /\ quality = [id \in DOMAIN c |->
                         [critic_score |-> 90, audience_score |-> 90,
                          imdb_rating |-> 8, buzz_score |-> 80]]
    /\ call = NoCall
    /\ ret = NoResult
    /\ asmp_DISCOUNT_RATE = DISCOUNT_RATE
    /\ sessions = <<>>

\* findComparables for a catalogued title, on the scorecards of the catalogue
FindComparablesForTitle ==
    /\ call = NoCall
    /\ \E title_id \in 1..MaxCatalogue, top_n \in TopNLevels, draws \in ScorecardDraws :
        LET df_scorecards == compute_all_scorecards(titles, engagement, quality, draws)
        IN  /\ call' = [op |-> "find_comparable_titles_for_title",
                        title_id |-> title_id, top_n |-> top_n,
                        df_scorecards |-> df_scorecards.df]
            /\ ret' = find_comparable_titles_for_title(title_id, titles,
                                                       df_scorecards.df, top_n)
            /\ UNCHANGED <<titles, engagement, quality, asmp_DISCOUNT_RATE, sessions>>

\* findComparables for a new concept, on the scorecards of the catalogue
FindComparables ==
    /\ call = NoCall
    /\ \E concept \in ComparableConcepts, top_n \in TopNLevels, draws \in ScorecardDraws :
        LET df_scorecards == compute_all_scorecards(titles, engagement, quality, draws)
        IN  /\ call' = [op |-> "find_comparable_titles", concept |-> concept,
                        top_n |-> top_n]
            /\ ret' = find_comparable_titles(concept, titles, df_scorecards.df, top_n)
            /\ UNCHANGED <<titles, engagement, quality, asmp_DISCOUNT_RATE, sessions>>


ForecastConcepts ==
    { NewTitleConcept(brand, "Action", "Film", budget[1], budget[2], ip_familiarity,
                      star_power_score, buzz_potential_score) :
        brand \in {"Marvel", "Hulu Originals"},
        budget \in { <<0, 0>>, <<15, 5>>, <<90, 30>>, <<400, 100>> },
        ip_familiarity \in {"New IP", "Sequel"},
        star_power_score \in {1, 5},
        buzz_potential_score \in {0, 100} }

\* forecast: forecast_new_title for a concept, on the catalogue
Forecast ==
    /\ call = NoCall
    /\ \E concept \in ForecastConcepts, draws \in ScorecardDraws :
        /\ call' = [op |-> "forecast_new_title", concept |-> concept]
        /\ ret' = forecast_new_title(concept, titles, engagement, quality, draws)
        /\ UNCHANGED <<titles, engagement, quality, asmp_DISCOUNT_RATE, sessions>>

NextGreenlight == FindComparablesForTitle \/ FindComparables \/ Forecast

SpecGreenlight == InitGreenlight /\ [][NextGreenlight]_vars


Forecasted == call.op = "forecast_new_title"

\* C11: on an empty catalogue (hence an empty comparable set) the forecast
\* returns, without raising, the explicit no-comparables result: no comps, no
\* scenarios and the 'no comparable titles found' recommendation.
C11_EmptyCatalogueNoComparablesResult ==
    (Forecasted /\ DOMAIN titles = {}) =>
        /\ ret.status = "ok"
        /\ ret.comps = <<>>
        /\ ret.scenarios = EmptyDict
        /\ ret.recommendation.text =
               "Unable to generate forecast: no comparable titles found."


ComparablesFound ==
    /\ call.op \in ComparableOps
    /\ ret.status = "ok"

\* The candidates of the run, and the score the code gives each of them
Candidates ==
    IF call.op = "find_comparable_titles_for_title"
    THEN DOMAIN titles \ {call.title_id}
    ELSE DOMAIN titles

CandidateScore(id) ==
    IF call.op = "find_comparable_titles_for_title"
    THEN title_similarity(titles[id], titles[call.title_id],
                          call.df_scorecards[id].total_hours_viewed,
                          call.df_scorecards[call.title_id].total_hours_viewed)
    ELSE Ratio(concept_similarity(titles[id], call.concept), 1)

ReturnedScore(k) ==
    IF call.op = "find_comparable_titles_for_title"
    THEN ret.comps[k].similarity_score
    ELSE Ratio(ret.comps[k].similarity_score, 1)

ReturnedIds == { ret.comps[k].title_id : k \in DOMAIN ret.comps }

ExistingModeWhole(row, target) ==
    (IF row.brand = target.brand THEN 5 ELSE 0)
      + (IF row.genre = target.genre THEN 4 ELSE 0)
      + (IF row.content_type = target.content_type THEN 3 ELSE 0)
      + (IF row.production_budget_tier = target.production_budget_tier THEN 3
         ELSE IF <<row.production_budget_tier, target.production_budget_tier>>
                     \in AdjacentTiers THEN 1
         ELSE 0)

FullMatch(row, target) ==
    /\ row.brand = target.brand /\ row.genre = target.genre
    /\ row.content_type = target.content_type
    /\ row.production_budget_tier = target.production_budget_tier

BrandOnly(row, target) ==
    /\ row.brand = target.brand /\ row.genre # target.genre
    /\ row.content_type # target.content_type

\* C17: in existing-title mode a candidate scores 5, 4 and 3 for a brand,
\* genre and content-type match, 3 or 1 for the same or an adjacent budget
\* tier, plus 2 * min(hours)/max(hours); a candidate matching brand, genre,
\* content type and tier scores between 15 and 17 and strictly more than any
\* candidate matching only the brand.
C17_ExistingModeScore ==
    (ComparablesFound /\ call.op = "find_comparable_titles_for_title") =>
        LET target == titles[call.title_id]
            hoursB == call.df_scorecards[call.title_id].total_hours_viewed
        IN  /\ \A k \in DOMAIN ret.comps :
                   LET row == ret.comps[k]
                       hoursA == row.total_hours_viewed
                       score == row.similarity_score
                       whole == ExistingModeWhole(row, target)
                   IN  /\ score.d > 0
                       /\ Max(hoursA, hoursB) > 0 =>
                              score.n * Max(hoursA, hoursB) =
                                  (whole * Max(hoursA, hoursB) + 2 * Min(hoursA, hoursB))
                                      * score.d
                       /\ Max(hoursA, hoursB) = 0 => score.n = whole * score.d
                       /\ FullMatch(row, target) =>
                              /\ 15 * score.d <= score.n
                              /\ score.n <= 17 * score.d
            /\ \A a, b \in Candidates :
                   (FullMatch(titles[a], target) /\ BrandOnly(titles[b], target)) =>
                       RatLess(CandidateScore(b), CandidateScore(a))

\* A full match is returned ahead of a brand-only match whose hours term
\* lies strictly between 0 and 2
C17_Witness ==
    /\ ComparablesFound /\ call.op = "find_comparable_titles_for_title"
    /\ Len(ret.comps) = 2
    /\ FullMatch(ret.comps[1], titles[call.title_id])
    /\ ret.comps[1].similarity_score.n = 17 * ret.comps[1].similarity_score.d
    /\ BrandOnly(ret.comps[2], titles[call.title_id])
    /\ RatLess(Ratio(ExistingModeWhole(ret.comps[2], titles[call.title_id]), 1),
               ret.comps[2].similarity_score)
    /\ RatLess(ret.comps[2].similarity_score,
               Ratio(ExistingModeWhole(ret.comps[2], titles[call.title_id]) + 2, 1))


\* The concept's budget tier as the claim states it
ClaimedConceptTier(budget) ==
    IF budget < 20 THEN "Low" ELSE IF budget >= 20 /\ budget < 80 THEN "Medium" ELSE "High"

ForecastMade == Forecasted /\ ret.status = "ok" /\ ret.comps # <<>>

\* The bull case of one metric as the claim states it:
\* min(mean + std, max * 1.2) * 1.3 * multiplier
ClaimedBullCase(dist, multiplier) ==
    FloatScaled(py_min(FloatAdd(dist.mean, dist.std), FloatScaled(dist.max, 12, 10)),
                multiplier * 13, 20000)

\* C19: the bull scenario's hours and value are each
\* min(mean + std, max * 1.2) * 1.3 * conceptMultiplier, with one single x1.3
\* amplification, and the bull ROI is (bull value - cost)/cost for the
\* concept's own budget plus marketing.
C19_BullSingleAmplification ==
    ForecastMade =>
        LET multiplier == concept_multiplier(call.concept)
            cost == call.concept.production_budget_estimate
                      + call.concept.marketing_spend_estimate
            bull == ret.scenarios.bull
        IN  /\ bull.total_hours_viewed =
                   ClaimedBullCase(ret.distributions.total_hours_viewed, multiplier)
            /\ bull.total_value =
                   ClaimedBullCase(ret.distributions.total_value, multiplier)
            /\ (cost > 0 /\ ~IsNaN(bull.total_value)) =>
                   bull.roi = Ratio(bull.total_value.n - cost * StatScale,
                                    cost * StatScale)


(***************************************************************************)
(* Recommendations: generate_recommendation on drawn scenarios             *)
(***************************************************************************)
\* Base and bear ROI on both sides of every threshold of the table, and nan
BaseRoiLevels ==
    { Ratio(n, 100) : n \in {0 - 50, 0, 1, 20, 21, 50, 51, 100, 101, 300} } \cup {FloatNaN}
BearRoiLevels ==
    { Ratio(n, 100) : n \in {0 - 50, 0, 1, 30, 31} } \cup {FloatNaN}

RecommendationConcepts ==
    { NewTitleConcept("Marvel", "Action", "Film", 90, 30, ip_familiarity,
                      star_power_score, buzz_potential_score) :
        ip_familiarity \in {"New IP", "Sequel", "Spin-off"},
        star_power_score \in {1, 3, 5},
        buzz_potential_score \in {0, 50, 100} }

\* Comparable rows with a strong and with a modest average ROI
RecommendationComps ==
    { << [title_id |-> 1, roi |-> Ratio(963, 120)] >>,
      << [title_id |-> 1, roi |-> Ratio(30, 120)], [title_id |-> 2, roi |-> Ratio(0 - 20, 20)] >> }

RecommendationScenarios ==
    { [base |-> [roi |-> base_roi], bear |-> [roi |-> bear_roi], bull |-> [roi |-> base_roi]] :
        base_roi \in BaseRoiLevels, bear_roi \in BearRoiLevels }
    \cup {EmptyDict}

InitRecommend ==
    /\ titles = <<>> /\ engagement = <<>> /\ quality = <<>>
    /\ \E concept \in RecommendationConcepts, scenarios \in RecommendationScenarios,
          comps \in RecommendationComps :
           call = [op |-> "arguments", concept |-> concept,
                   scenarios |-> scenarios, comps |-> comps]
    /\ ret = NoResult
    /\ asmp_DISCOUNT_RATE = DISCOUNT_RATE
    /\ sessions = <<>>

Recommend ==
    /\ call.op = "arguments"
    /\ call' = [call EXCEPT !.op = "generate_recommendation"]
    /\ ret' = generate_recommendation(call.concept, call.scenarios, call.comps)
    /\ UNCHANGED <<titles, engagement, quality, asmp_DISCOUNT_RATE, sessions>>

NextRecommend == Recommend

SpecRecommend == InitRecommend /\ [][NextRecommend]_vars

Recommended == call.op = "generate_recommendation" /\ Has(call.scenarios, "base")

\* roi > num/den; false for nan
RoiAbove(roi, num, den) == roi.d > 0 /\ roi.n * den > num * roi.d

RecommendationLabels ==
    {"STRONG GREENLIGHT", "GREENLIGHT", "CONDITIONAL GREENLIGHT", "MARGINAL", "PASS"}

\* C20: the recommendation label is decided from (base ROI, bear ROI) alone
\* by the first matching row of: base > 1.0 and bear > 0.3, Strong Greenlight;
\* base > 0.5 and bear > 0, Greenlight; base > 0.2, Conditional; base > 0,
\* Marginal; otherwise Pass - one label for every pair, whatever the IP
\* familiarity, star power, buzz and comparables.
C20_LabelFromDecisionTable ==
    Recommended =>
        LET base_roi == call.scenarios.base.roi
            bear_roi == call.scenarios.bear.roi
        IN  /\ ret.recommendation_text \in RecommendationLabels
            /\ ret.recommendation_text =
                   IF RoiAbove(base_roi, 1, 1) /\ RoiAbove(bear_roi, 3, 10)
                   THEN "STRONG GREENLIGHT"
                   ELSE IF RoiAbove(base_roi, 1, 2) /\ RoiAbove(bear_roi, 0, 1)
                   THEN "GREENLIGHT"
                   ELSE IF RoiAbove(base_roi, 1, 5) THEN "CONDITIONAL GREENLIGHT"
                   ELSE IF RoiAbove(base_roi, 0, 1) THEN "MARGINAL"
                   ELSE "PASS"

\* A base ROI above 1.0 held back to Greenlight by a bear ROI of 0.3
C20_Witness ==
    /\ Recommended
    /\ call.scenarios.base.roi = Ratio(101, 100)
    /\ call.scenarios.bear.roi = Ratio(30, 100)
    /\ ret.recommendation_text = "GREENLIGHT"
    /\ "Strong talent attachment" \in ret.key_factors


\* C28: simulate returns exactly one result row per input scenario, in input
\* order, whatever the scenario's title_id field.
C28_OneRowPerScenario ==
    (call.op = "simulate_windowing_scenarios" /\ ret.status = "ok") =>
        /\ Len(ret.rows) = Len(call.scenarios)
        /\ \A i \in DOMAIN ret.rows :
               /\ ret.rows[i].scenario_name = call.scenarios[i].scenario_name
               /\ ret.rows[i].theatrical_window_days =
                      call.scenarios[i].theatrical_window_days
               /\ ret.rows[i].pvod_window_days = call.scenarios[i].pvod_window_days


\* C25: in simulate the cash of each week of the series behind total_npv is
\* the sum of the theatrical, PVOD, streaming and license contributions
\* falling in that week, also when PVOD weeks overlap the theatrical weeks.
C25_WeekCashIsSumOfContributions ==
    Simulated =>
        LET row == ret.rows[1]
            scenario == RunScenario
            pvod_start_week == scenario.theatrical_window_days \div 7
            pvod_duration_weeks == scenario.pvod_window_days \div 7
            streaming_start_week == row.streaming_offset_days \div 7
            license_week == scenario.third_party_license_start_days \div 7
        IN  \A week \in DOMAIN row.cashflows :
                row.cashflows[week] =
                    (IF row.theatrical_value > 0 /\ week \in Range(0, theatrical_weeks)
                     THEN PerWeek(row.theatrical_value, theatrical_weeks) ELSE 0)
                  + (IF row.pvod_value > 0
                        /\ week \in Range(pvod_start_week, pvod_duration_weeks)
                     THEN PerWeek(row.pvod_value, pvod_duration_weeks) ELSE 0)
                  + (IF week \in Range(streaming_start_week, streaming_duration_weeks)
                     THEN Decayed(row.streaming_value, week - streaming_start_week)
                     ELSE 0)
                  + (IF row.license_value > 0 /\ week = license_week
                     THEN row.license_value * CashPerM ELSE 0)


\* The timeline buildTimeline computes for the title and scenario of the
\* simulate run in progress, under the rate simulate discounts with
TimelineOfRun(variance) ==
    compute_cashflow_timeline(call.title_id, RunScenario, titles, engagement,
                              quality, 52, variance, DISCOUNT_RATE)

\* Every week simulate placed cash in is a period of the timeline
CashInsideHorizon == DOMAIN ret.rows[1].cashflows \subseteq 0..(max_periods - 1)

\* C26: for the same title, scenario (all cash inside the horizon), discount
\* rate and theatrical value, simulate's total_npv equals the last
\* cumulative_npv of the timeline and simulate's total_value equals the sum
\* of the timeline's total_cf, on the ad-supported platform as elsewhere.
C26_SimulateAgreesWithTimeline ==
    (Simulated /\ NonNegativeFields(RunScenario) /\ CashInsideHorizon) =>
        \A variance \in VarianceDraws :
            LET row == ret.rows[1]
                timeline == TimelineOfRun(variance)
            IN  timeline.theatrical_value = row.theatrical_value =>
                    /\ row.total_npv = timeline.df_cf[max_periods].cumulative_npv
                    /\ row.total_value * CashPerM = ColumnSum(timeline.df_cf, "total_cf")


\* C27: every timeline computed during one session's page run is discounted
\* with the rate selected on that session's own slider, for every
\* interleaving with the page runs of the other sessions.
C27_TimelineUsesOwnSliderRate ==
    PageSimulated =>
        \A i \in DOMAIN ret.cashflow_timelines :
            \A k \in DOMAIN ret.cashflow_timelines[i].df_cf :
                LET row == ret.cashflow_timelines[i].df_cf[k]
                IN  /\ row.discount_factor =
                           discount_factor(call.discount_rate_pct, 52, row.period)
                    /\ row.discounted_cf = discounted(row.total_cf, row.discount_factor)


\* The comparable set has at least two titles, none with negative hours or value
SeveralComps ==
    /\ ForecastMade
    /\ Len(ret.comps) >= 2
    /\ \A i \in DOMAIN ret.comps :
           ret.comps[i].total_hours_viewed >= 0 /\ ret.comps[i].total_value >= 0

\* C29: for a comparable set of at least two titles with non-negative hours
\* and values the scenarios are ordered bear <= base <= bull for hours and
\* for value, for ROI too when the concept's cost is positive, and all three
\* scenarios carry the same total_cost.
C29_ScenariosOrdered ==
    SeveralComps =>
        LET bear == ret.scenarios.bear
            base == ret.scenarios.base
            bull == ret.scenarios.bull
        IN  /\ bear.total_hours_viewed.d = StatScale
            /\ base.total_hours_viewed.d = StatScale
            /\ bull.total_hours_viewed.d = StatScale
            /\ bear.total_hours_viewed.n <= base.total_hours_viewed.n
            /\ base.total_hours_viewed.n <= bull.total_hours_viewed.n
            /\ bear.total_value.d = StatScale
            /\ base.total_value.d = StatScale
            /\ bull.total_value.d = StatScale
            /\ bear.total_value.n <= base.total_value.n
            /\ base.total_value.n <= bull.total_value.n
            /\ bear.total_cost = base.total_cost
            /\ base.total_cost = bull.total_cost
            /\ base.total_cost = call.concept.production_budget_estimate
                                   + call.concept.marketing_spend_estimate
            /\ base.total_cost > 0 =>
                   /\ ~RatLess(base.roi, bear.roi)
                   /\ ~RatLess(bull.roi, base.roi)
                   /\ bear.roi.d > 0 /\ base.roi.d > 0 /\ bull.roi.d > 0

\* A forecast from comparables of different size, for a concept with a
\* positive cost: the three scenarios are strictly apart
C29_Witness ==
    /\ SeveralComps
    /\ ret.distributions.total_value.std.n > 0
    /\ ret.distributions.total_hours_viewed.std.n > 0
    /\ ret.scenarios.base.total_cost > 0
    /\ ret.scenarios.bear.total_hours_viewed.n < ret.scenarios.base.total_hours_viewed.n
    /\ ret.scenarios.base.total_hours_viewed.n < ret.scenarios.bull.total_hours_viewed.n
    /\ RatLess(ret.scenarios.bear.roi, ret.scenarios.base.roi)
    /\ RatLess(ret.scenarios.base.roi, ret.scenarios.bull.roi)

ForecastMetrics == {"total_hours_viewed", "total_value", "roi"}
ScenarioNames == {"bear", "base", "bull"}

\* C30: for every non-empty comparable set, one of a single title included,
\* the std of each distribution is a defined number and the hours, value and
\* ROI of the bear, base and bull scenarios are defined finite numbers.
C30_SingleComparableDefined ==
    ForecastMade =>
        /\ \A metric \in ForecastMetrics :
               ~IsNaN(ret.distributions[metric].std)
        /\ \A name \in ScenarioNames :
               /\ ret.scenarios[name].total_hours_viewed.d > 0
               /\ ret.scenarios[name].total_value.d > 0
               /\ ret.scenarios[name].roi.d > 0


(***************************************************************************)
(* Curve statistics and the decay fit                                      *)
(***************************************************************************)
\* Predicted hours are kept in tenths of a million hours
PredScale == 10

\* e^q in thousands of hours
exp_whole(q) ==
    CASE q < 7 -> 0
      [] q = 7 -> 1             [] q = 8 -> 2             [] q = 9 -> 8
      [] q = 10 -> 22           [] q = 11 -> 59           [] q = 12 -> 162
      [] q = 13 -> 442          [] q = 14 -> 1202         [] q = 15 -> 3269
      [] q = 16 -> 8886         [] q = 17 -> 24154        [] q = 18 -> 65659
      [] q = 19 -> 178482       [] q = 20 -> 485165       [] q = 21 -> 1318815
      [] q = 22 -> 3584912

\* e^(r/100) for r in 0..99, in thousandths (series to the fourth power)
exp_fraction(r) ==
    1000 + 10 * r + (r * r) \div 20 + (r * r * r) \div 6000
         + (r * r * r * r) \div 2400000

\* max(0, np.exp(log_pred) - 1) in tenths of a million hours; log_pred is in
\* hundredths.  The hour subtracted is below the grain.
predicted_hours(log_pred) ==
    IF log_pred < 0 THEN 0
    ELSE (exp_whole(log_pred \div LogScale) * (exp_fraction(log_pred % LogScale) \div 10))
            \div 10000

\* r_squared = 1 - ss_res / ss_tot if ss_tot > 0 else 0, clamped to [0, 1];
\* total is n * n * ss_tot
clamped_r_squared(ss_res, total, n) ==
    IF total <= 0 THEN Zero
    ELSE IF ss_res > total \div (n * n) THEN Zero
    ELSE IF total - n * n * ss_res <= 0 THEN Zero
    ELSE Ratio(total - n * n * ss_res, total)

\* fit_engagement_curve_model: the predicted Series (by week, in tenths of a
\* million hours) and r_squared
fit_engagement_curve_model(df_engagement) ==
    IF Cardinality(Weeks(df_engagement)) < 3
    THEN [predicted |-> NoRows, r_squared |-> Zero]
    ELSE
      LET df == df_engagement
          peak_week == idxmax(df)
          peak_hours == df[peak_week]
          post_peak == {w \in Weeks(df) : w >= peak_week}
          observed == [w \in Weeks(df) |-> df[w] * PredScale]
      IN  IF Cardinality(post_peak) < 2
          THEN [predicted |-> observed, r_squared |-> Zero]
          ELSE
            LET X == {w - peak_week : w \in post_peak}
                y == [x \in X |-> log_hours(df[x + peak_week])]
                s == regression_sums(X, y)
                n == s.n
                fitted == /\ n > 1
                          /\ SquareDeviation(s) > 0                \* np.std(X) > 0
                          /\ \E a, b \in X : y[a] # y[b]           \* np.std(y) > 0
                slope == regression_slope(s)
                \* intercept - decay_rate * weeks_from_peak
                log_pred(weeks_from_peak) ==
                    IF fitted
                    THEN (s.y * slope.d + slope.n * (n * weeks_from_peak - s.x))
                         \div (n * slope.d)
                    ELSE log_hours(peak_hours) - (LogScale \div 10) * weeks_from_peak
                predicted == [week \in Weeks(df) |->
                                 IF week < peak_week THEN df[week] * PredScale
                                 ELSE predicted_hours(log_pred(week - peak_week))]
                count == Cardinality(Weeks(df))
                \* a residual beyond the sum of the observed hours already
                \* makes ss_res exceed ss_tot, so it is counted as that sum + 1
                residual(w) ==
                    LET d == observed[w] - predicted[w]
                    IN  Min(IF d < 0 THEN 0 - d ELSE d, 1 + SumFn(observed, Weeks(df)))
                ss_res == SumFn([w \in Weeks(df) |-> residual(w) * residual(w)], Weeks(df))
                total == SumFn([w \in Weeks(df) |->
                                   (count * observed[w] - SumFn(observed, Weeks(df)))
                                     * (count * observed[w] - SumFn(observed, Weeks(df)))],
                               Weeks(df))
            IN  [predicted |-> predicted,
                 r_squared |-> clamped_r_squared(ss_res, total, count)]

MaxCurveWeek == 5       \* the weeks of a curve series are among 0..MaxCurveWeek
CurveHourLevels == {0, 1, 3}

\* Every series with unique weeks among 0..MaxCurveWeek
CurveSeries == UNION { [W -> CurveHourLevels] : W \in SUBSET (0..MaxCurveWeek) }

InitCurve ==
    /\ titles = <<>>
    /\ quality = <<>>
    /\ \E srs \in CurveSeries : engagement = (1 :> srs)
    /\ call = NoCall
    /\ ret = NoResult
    /\ asmp_DISCOUNT_RATE = DISCOUNT_RATE
    /\ sessions = <<>>

\* computeCurveStatistics: compute_engagement_curve on the title's series
ComputeCurve ==
    /\ call = NoCall
    /\ call' = [op |-> "compute_engagement_curve", title_id |-> 1]
    /\ ret' = compute_engagement_curve(engagement[1])
    /\ UNCHANGED <<titles, engagement, quality, asmp_DISCOUNT_RATE, sessions>>

\* fitDecayModel: fit_engagement_curve_model on the title's series
FitCurve ==
    /\ call = NoCall
    /\ call' = [op |-> "fit_engagement_curve_model", title_id |-> 1]
    /\ ret' = fit_engagement_curve_model(engagement[1])
    /\ UNCHANGED <<titles, engagement, quality, asmp_DISCOUNT_RATE, sessions>>

NextCurve == ComputeCurve \/ FitCurve

SpecCurve == InitCurve /\ [][NextCurve]_vars

CurveComputed == call.op = "compute_engagement_curve"
CurveFitted == call.op = "fit_engagement_curve_model"

\* The weeks strictly after the week of the (first) maximum, as weeks since it
WeeksSincePeak ==
    LET df == engagement[1]
    IN  IF Weeks(df) = {} THEN {}
        ELSE {w - idxmax(df) : w \in {v \in Weeks(df) : v > idxmax(df)}}

LogHoursSincePeak ==
    [x \in WeeksSincePeak |-> log_hours(engagement[1][x + idxmax(engagement[1])])]

\* C21: with at least 3 points strictly after the peak week decay_rate is
\* max(0, -b) for the least-squares slope
\* b = sum((x - mean x)(y - mean y)) / sum((x - mean x)^2) of log(hours + 1)
\* on weeks since peak over those points; with fewer points it is 0.
C21_DecayRateIsLeastSquaresSlope ==
    CurveComputed =>
        IF Cardinality(WeeksSincePeak) >= 3
        THEN LET sums == regression_sums(WeeksSincePeak, LogHoursSincePeak)
                 b == Ratio(CrossDeviation(sums), SquareDeviation(sums))
             IN  ret.decay_rate.n * b.d = Max(0, 0 - b.n) * ret.decay_rate.d
        ELSE ret.decay_rate = Zero


\* C22: for every series with non-negative hours and unique weeks the curve
\* statistics have total_hours equal to the sum of all hours, peak_hours equal
\* to the maximum with peak_week a week holding it, decay_rate >= 0, and
\* long_tail_share equal to (hours at weeks > 4) / total_hours, in [0, 1],
\* and 0 when total_hours is 0.
C22_CurveStatisticsInvariants ==
    CurveComputed =>
        LET df == engagement[1]
            tail == SumFn(df, {w \in Weeks(df) : w > 4})
        IN  /\ ret.total_hours = SumFn(df, Weeks(df))
            /\ Weeks(df) # {} =>
                   /\ ret.peak_week \in Weeks(df)
                   /\ df[ret.peak_week] = ret.peak_hours
                   /\ \A w \in Weeks(df) : df[w] <= ret.peak_hours
            /\ ret.decay_rate.d > 0 /\ ret.decay_rate.n >= 0
            /\ ret.long_tail_share.d > 0
            /\ 0 <= ret.long_tail_share.n
            /\ ret.long_tail_share.n <= ret.long_tail_share.d
            /\ IF ret.total_hours = 0 THEN ret.long_tail_share = Zero
               ELSE ret.long_tail_share = Ratio(tail, ret.total_hours)

\* A series with hours in week 4 and in week 5, a peak before them and a
\* positive fitted decay
C22_Witness ==
    /\ CurveComputed
    /\ {4, 5} \subseteq Weeks(engagement[1])
    /\ engagement[1][4] > 0 /\ engagement[1][5] > 0
    /\ ret.peak_week < 2
    /\ ret.decay_rate.n > 0
    /\ ret.long_tail_share.n > 0
    /\ ret.long_tail_share.n < ret.long_tail_share.d


\* The observed hours by week, in the unit of the prediction
ObservedHours == [w \in Weeks(engagement[1]) |-> engagement[1][w] * PredScale]

\* Fewer than 2 usable points: a series of 1 or 2 points, or a peak in the
\* last week
DegenerateSeries ==
    LET df == engagement[1]
    IN  \/ Cardinality(Weeks(df)) <= 2
        \/ Cardinality({w \in Weeks(df) : w >= idxmax(df)}) < 2

\* C23: for every non-empty series the fit returns a prediction with one value
\* per observed week in which every week before the peak carries the observed
\* hours; for fewer than 2 usable points (series of 1 or 2 points, or a peak
\* in the last week) it returns R-squared 0 with a flat prediction equal to
\* the observed values; and R-squared always lies in [0, 1].
C23_FitPredictsEveryObservedWeek ==
    (CurveFitted /\ Weeks(engagement[1]) # {}) =>
        /\ DOMAIN ret.predicted = Weeks(engagement[1])
        /\ \A w \in Weeks(engagement[1]) :
               w < idxmax(engagement[1]) => ret.predicted[w] = ObservedHours[w]
        /\ DegenerateSeries =>
               /\ ret.r_squared = Zero
               /\ ret.predicted = ObservedHours
        /\ ret.r_squared.d > 0
        /\ 0 <= ret.r_squared.n
        /\ ret.r_squared.n <= ret.r_squared.d


(***************************************************************************)
(* Portfolio concentration: portfolio_dashboard.py and metrics.py          *)
(***************************************************************************)
\* A frame is the sequence of its rows.  Sum of one column:
ColumnTotal(df, column) == SumSeq([i \in DOMAIN df |-> df[i][column]])

\* Shares of the largest value instead of the total
value_shares_of_largest(values, total_value) ==
    [i \in DOMAIN values |->
        Ratio(values[i], Max(1, CHOOSE v \in {values[j] : j \in DOMAIN values} :
                                    \A j \in DOMAIN values : values[j] <= v))]

\* df["value_share"] = df[column] / total_value
value_shares(values, total_value) ==
    [i \in DOMAIN values |-> Ratio(values[i], total_value)]

\* (shares ** 2).sum() * 10000 for shares with one common denominator
squared_shares_index(shares) ==
    Ratio(10000 * SumSeq([i \in DOMAIN shares |-> shares[i].n * shares[i].n]),
          shares[1].d * shares[1].d)

\* DataFrame.sort_values(column, ascending=False).head(top_n): row positions
top_rows(df, column, top_n) ==
    nlargest([i \in DOMAIN df |-> Ratio(df[i][column], 1)], top_n)

\* compute_concentration_metrics
compute_concentration_metrics(df_scorecards, top_n) ==
    IF df_scorecards = <<>>
    THEN [total_titles |-> 0, top_n |-> top_n, top_n_share |-> Zero, top_n_value |-> 0,
          total_value |-> 0, top_titles |-> <<>>, hhi |-> Zero]
    ELSE
      LET df == df_scorecards
          total_value == ColumnTotal(df, "total_value")
          top == top_rows(df, "total_value", top_n)
          top_n_value == SumSeq([k \in DOMAIN top |-> df[top[k]].total_value])
      IN  IF total_value <= 0
          THEN [total_titles |-> Len(df), top_n |-> top_n, top_n_share |-> Zero,
                top_n_value |-> 0, total_value |-> 0, top_titles |-> <<>>, hhi |-> Zero]
          ELSE [total_titles |-> Len(df), top_n |-> top_n,
                top_n_share |-> Ratio(top_n_value, total_value),
                top_n_value |-> top_n_value,
                total_value |-> total_value,
                top_titles |-> [k \in DOMAIN top |->
                    [title_name |-> df[top[k]].title_name,
                     brand |-> df[top[k]].brand,
                     total_value |-> df[top[k]].total_value,
                     value_share |-> Ratio(df[top[k]].total_value, total_value),
                     roi |-> df[top[k]].roi]],
                hhi |-> squared_shares_index(
                            value_shares([i \in DOMAIN df |-> df[i].total_value],
                                         total_value))]

\* hhi < 1500, hhi < 2500
hhi_interpretation(hhi) ==
    IF hhi.n < 1500 * hhi.d THEN "Competitive (Low Concentration)"
    ELSE IF hhi.n < 2500 * hhi.d THEN "Moderate Concentration"
    ELSE "High Concentration"

\* df_scorecards.groupby(segment_by)["total_value"].sum(), as a function of
\* the segment key
segment_sums(df, segment_by) ==
    [key \in {df[i][segment_by] : i \in DOMAIN df} |->
        SumSeq([i \in DOMAIN df |->
                   IF df[i][segment_by] = key THEN df[i].total_value ELSE 0])]

\* The sum of a function with a finite domain of strings
RECURSIVE SumOver(_, _)
SumOver(f, D) ==
    IF D = {} THEN 0
    ELSE LET key == CHOOSE k \in D : TRUE IN f[key] + SumOver(f, D \ {key})

\* compute_hhi_by_segment
compute_hhi_by_segment(df_scorecards, segment_by) ==
    IF df_scorecards = <<>> \/ segment_by \notin DOMAIN df_scorecards[1]
    THEN [hhi |-> Zero, interpretation |-> "N/A"]
    ELSE
      LET segment_values == segment_sums(df_scorecards, segment_by)
          total_value == SumOver(segment_values, DOMAIN segment_values)
          shares == [key \in DOMAIN segment_values |->
                        Ratio(segment_values[key], total_value)]
          hhi == Ratio(10000 * SumOver([key \in DOMAIN shares |->
                                           shares[key].n * shares[key].n],
                                       DOMAIN shares),
                       total_value * total_value)
      IN  IF total_value <= 0
          THEN [hhi |-> Zero, interpretation |-> "N/A"]
          ELSE [hhi |-> hhi, interpretation |-> hhi_interpretation(hhi),
                segment_shares |-> shares]

\* compute_portfolio_concentration
compute_portfolio_concentration(df_titles_with_value, top_n) ==
    IF \/ df_titles_with_value = <<>>
       \/ "total_streaming_value" \notin DOMAIN df_titles_with_value[1]
    THEN [top_n_share |-> Zero, top_n_titles |-> <<>>, hhi |-> Zero]
    ELSE
      LET df == df_titles_with_value
          total_value == ColumnTotal(df, "total_streaming_value")
          top == top_rows(df, "total_streaming_value", top_n)
          top_n_value == SumSeq([k \in DOMAIN top |-> df[top[k]].total_streaming_value])
      IN  IF total_value <= 0
          THEN [top_n_share |-> Zero, top_n_titles |-> <<>>, hhi |-> Zero]
          ELSE [top_n_share |-> Ratio(top_n_value, total_value),
                top_n_titles |-> [k \in DOMAIN top |->
                    [title_name |-> df[top[k]].title_name,
                     total_streaming_value |-> df[top[k]].total_streaming_value]],
                hhi |-> Ratio(10000 * SumSeq([i \in DOMAIN df |->
                                  df[i].total_streaming_value * df[i].total_streaming_value]),
                              total_value * total_value)]

MaxPortfolio == 3       \* a portfolio frame has up to MaxPortfolio rows

\* Brand and genre of a row
PortfolioSegments == { <<"Marvel", "Action">>, <<"Marvel", "Drama">>, <<"Pixar", "Drama">> }

\* total_value and total_streaming_value of a row, in $M
PortfolioValues == { <<0, 0>>, <<1, 1>>, <<4, 1>> }

PortfolioRow(title_id, segment, value) ==
    [title_name |-> title_id, brand |-> segment[1], genre |-> segment[2],
     total_value |-> value[1], total_streaming_value |-> value[2],
     roi |-> Ratio(value[1] - 1, 1)]

PortfolioFrames ==
    UNION { { [i \in 1..n |-> PortfolioRow(i, segments[i], values[i])] :
                segments \in [1..n -> PortfolioSegments],
                values \in [1..n -> PortfolioValues] } : n \in 0..MaxPortfolio }

TopNChoices == {1, 10}
SegmentColumns == {"brand", "genre", "franchise"}

\* The frame of scorecards is kept in titles
InitPortfolio ==
    /\ titles \in PortfolioFrames
    /\ engagement = <<>>
    /\ quality = <<>>
    /\ call = NoCall
    /\ ret = NoResult
    /\ asmp_DISCOUNT_RATE = DISCOUNT_RATE
    /\ sessions = <<>>

ConcentrationMetrics ==
    /\ call = NoCall
    /\ \E top_n \in TopNChoices :
        /\ call' = [op |-> "compute_concentration_metrics", top_n |-> top_n]
        /\ ret' = compute_concentration_metrics(titles, top_n)
    /\ UNCHANGED <<titles, engagement, quality, asmp_DISCOUNT_RATE, sessions>>

HhiBySegment ==
    /\ call = NoCall
    /\ \E segment_by \in SegmentColumns :
        /\ call' = [op |-> "compute_hhi_by_segment", segment_by |-> segment_by]
        /\ ret' = compute_hhi_by_segment(titles, segment_by)
    /\ UNCHANGED <<titles, engagement, quality, asmp_DISCOUNT_RATE, sessions>>

PortfolioConcentration ==
    /\ call = NoCall
    /\ \E top_n \in TopNChoices :
        /\ call' = [op |-> "compute_portfolio_concentration", top_n |-> top_n]
        /\ ret' = compute_portfolio_concentration(titles, top_n)
    /\ UNCHANGED <<titles, engagement, quality, asmp_DISCOUNT_RATE, sessions>>

NextPortfolio == ConcentrationMetrics \/ HhiBySegment \/ PortfolioConcentration

SpecPortfolio == InitPortfolio /\ [][NextPortfolio]_vars

\* The values the run partitions: per title, or summed per segment
PartitionValues ==
    CASE call.op = "compute_concentration_metrics" ->
             [i \in DOMAIN titles |-> titles[i].total_value]
      [] call.op = "compute_portfolio_concentration" ->
             [i \in DOMAIN titles |-> titles[i].total_streaming_value]
      [] call.op = "compute_hhi_by_segment" ->
             IF titles = <<>> \/ call.segment_by \notin DOMAIN titles[1] THEN <<>>
             ELSE LET keys == {titles[i][call.segment_by] : i \in DOMAIN titles}
                      first(key) == CHOOSE i \in DOMAIN titles :
                                        /\ titles[i][call.segment_by] = key
                                        /\ \A j \in 1..(i - 1) :
                                               titles[j][call.segment_by] # key
                      firsts == SelectSeq([i \in DOMAIN titles |-> i],
                                          LAMBDA i : first(titles[i][call.segment_by]) = i)
                  IN  [k \in DOMAIN firsts |->
                          SumSeq([i \in DOMAIN titles |->
                                     IF titles[i][call.segment_by]
                                            = titles[firsts[k]][call.segment_by]
                                     THEN titles[i].total_value ELSE 0])]

PortfolioOps ==
    {"compute_concentration_metrics", "compute_portfolio_concentration",
     "compute_hhi_by_segment"}

\* C24: for entries with non-negative values and a positive total the
\* concentration index is 10000 * sum(share_i^2) with share_i = value_i/total,
\* lies in [10000/n, 10000] for n entries, is 10000 when one entry holds all
\* the value, and is 0 when the set is empty or the total is not positive; the
\* per-title and the per-segment implementation agree on the same partition.
C24_ConcentrationIndex ==
    call.op \in PortfolioOps =>
        LET values == PartitionValues
            n == Len(values)
            total == SumSeq(values)
            squares == SumSeq([i \in DOMAIN values |-> values[i] * values[i]])
        IN  IF n = 0 \/ total <= 0 THEN ret.hhi = Zero
            ELSE /\ ret.hhi.d > 0
                 /\ ret.hhi.n * total * total = 10000 * squares * ret.hhi.d
                 /\ ret.hhi.n * n >= 10000 * ret.hhi.d
                 /\ ret.hhi.n <= 10000 * ret.hhi.d
                 /\ (\E i \in DOMAIN values : values[i] = total)
                        => ret.hhi.n = 10000 * ret.hhi.d
                 /\ ret.hhi = compute_concentration_metrics(
                                  [i \in DOMAIN values |->
                                      PortfolioRow(i, <<"Marvel", "Action">>,
                                                   <<values[i], values[i]>>)],
                                  10).hhi

\* A per-segment run on three titles in two segments of unequal value
C24_Witness ==
    /\ call.op = "compute_hhi_by_segment"
    /\ Len(titles) = 3
    /\ Len(PartitionValues) = 2
    /\ PartitionValues[1] # PartitionValues[2]
    /\ \A i \in DOMAIN titles : titles[i].total_value > 0
    /\ ret.hhi.n > 5000 * ret.hhi.d
    /\ ret.hhi.n < 10000 * ret.hhi.d

====
